---- MODULE Spec2Model ----
(***************************************************************************)
(* Verification model of connect_llm: the conversation manager             *)
(* (pkg/chat conversation.go), the realtime hub and chat orchestrator      *)
(* (pkg/chat websocket.go, service.go) and the ingestion pipeline          *)
(* (pkg/ingestion service.go, csv_parser.go).                              *)
(*                                                                         *)
(* Each subsystem has its own specification (SpecConv, SpecHub,            *)
(* SpecIngest, ...; a single ParseWithCallbacks call is SpecCsv, a single  *)
(* RetrieveContext call SpecRet, a single ProcessMessage call SpecPm); the *)
(* variables of the other subsystems stay at their initial values.         *)
(***************************************************************************)
EXTENDS Integers, Sequences, FiniteSets, TLC

(***************************************************************************)
(* Bounds of the model                                                     *)
(***************************************************************************)
\* AddMessage calls made on the conversation
MaxAdds == 3
\* largest configured MaxDocuments of the retriever
MaxDocsCfg == 3
\* distinct sources of the documents the vector search returns
MaxSources == 2
\* records of the file one ParseWithCallbacks call reads
MaxCsvRecords == 5
\* records between two progress reports (100 in ParseWithCallbacks, scaled down)
ReportEvery == 2
\* largest Tokens field / content-length estimate of an added message
MaxTok == 3
\* largest configured MaxContextTokens
MaxBudget == 3
\* largest configured MaxMessages
MaxMsgCfg == 3
\* largest token estimate of the configured system prompt
MaxSysTok == 2
\* websocket connections served by the hub
NumConns == 2
\* capacity of a client's outbound channel (256 in ServeWS, scaled down)
SendCap == 1
\* chat requests handled by the orchestrator
NumReqs == 1
\* chunks the model streams for one request
MaxChunks == 2
\* records in the ingested file
MaxRecords == 2
\* largest configured BatchSize
MaxBatch == 2
\* largest configured MaxConcurrency
MaxWorkers == 2
\* documents ProcessMessage returns for one message
MaxDocs == 1
\* documents ProcessMessage returns for one message of a single-worker run
MaxBatchDocs == 2
\* ranked candidates handed to buildContext
MaxCands == 3
\* token estimates of the small candidates and of the small budgets
MaxPackTok == 2
\* largest configured chunk size
MaxChunkSize == 4
\* words of the chunked text
MaxWords == 8
\* characters of a text beyond the fewest its words need
MaxPad == 4
\* messages whose documents get ids
MaxMsgId == 2
\* chunks of one message
MaxDocChunks == 3
\* ingestion runs after the first
MaxRuns == 1
\* terms of the query
MaxTerms == 2
\* documents the vector search returns
MaxHits == 3
\* documents of the context citations refer to
MaxCtxDocs == 11
\* pieces of a response
MaxPieces == 6
\* tasks calling AddMessage on one conversation at the same time
MaxWriters == 2
\* tokens of a message added under contention
MaxMsgTok == 2
\* budgets of the conversation under contention: tokens, messages
MgrMaxTokens == 4
MgrMaxMessages == 2
\* CSV files of a directory
MaxFiles == 2
\* messages of each outcome in one file of a directory
MaxPerKind == 1
\* ParseWithCallbacks calls running on one parser at the same time
MaxCalls == 2

VARIABLES
    \* ---- conversation manager (one conversation) ----
    cfgMaxMessages,   \* ConversationConfig.MaxMessages
    convMaxTokens,    \* Conversation.MaxContextTokens
    convMessages,     \* Conversation.Messages: sequence of [id, role, tokens]
    convTotalTokens,  \* Conversation.TotalTokens
    convAdds,         \* number of AddMessage calls made so far (message ids)
    ctxStatus,        \* outcome of the last GetContextMessages: "none" | "ok" | "error"
    ctxReserved,      \* its additionalTokens argument
    ctxOut,           \* the messages it returned
    \* ---- realtime hub ----
    hubPc,            \* Hub.Run: "run" (in its select) | "stopped" (returned)
    registry,         \* Hub.clients: client id -> connection, 0 when absent
    connId,           \* Client.ID of each connection
    connPc,           \* ServeWS / readPump position of each connection
    writerPc,         \* writePump position of each connection
    ctxDone,          \* Client.ctx cancelled
    sendQ,            \* Client.send: the buffered messages
    sendClosed,       \* Client.send has been closed
    closeCount,       \* number of close(client.send) calls made
    panic,            \* runtime panic that ended the process, "none" while it runs
    smPc,             \* Hub.SendMessage caller: "idle" | "send"
    smClient,         \* the client it looked up
    smResult,         \* what its last call returned: "none" | "ok" | "ErrCloseSent"
    \* ---- chat orchestrator ----
    streamingEnabled, \* ServiceConfig.StreamingEnabled
    reqPc,            \* position of each HandleChatMessage task
    reqConn,          \* the client it serves
    reqAcc,           \* chunks written to fullResponse / length of the response
    reqLast,          \* the chunk being relayed carried Done
    reqCite,          \* citations were extracted for the response
    llmPc,            \* ChatStream producer: "idle" | "run" | "closed"
    llmLeft,          \* chunks the model has still to stream
    convInTable,      \* ConversationManager.conversations holds the request's conversation
    reqUser,          \* AddMessage of the user turn: "none" | "missing" (conversation
                      \* not found) | "added" | "orphaned" (appended to a
                      \* conversation the table no longer holds)
    reqRag,           \* RetrieveContext: "none" | "off" | "ok" | "failed"
    reqPrompt,        \* the user message of the prompt: "none" | "plain" | "context"
    llmCalls,         \* calls of ChatStream / Chat made for the request
    errBuf,           \* an error is buffered in errChan
    assistantTurns,   \* assistant turns appended for each request
    persistedLen,     \* length of the assistant content that was appended
    \* ---- ingestion pipeline (one IngestFile run) ----
    batchSize,        \* ParserConfig.BatchSize
    workerCount,      \* Service.maxConcurrency
    skipEmptyContent, \* Service.skipEmptyContent
    parser,           \* CSVParser counters, its batch and its position
    messageChan,      \* the batches buffered in messageChan
    chanClosed,       \* messageChan has been closed
    workers,          \* each worker's position and processBatch locals
    stats,            \* the run's IngestionStats
    statsMu,          \* IngestionStats.mu: the worker holding it, 0 when free
    ingCtxDone,       \* the caller's context is cancelled
    ingPc,            \* IngestFile: "parse" | "wait" | "returned"
    ingErr,           \* IngestFile returned an error
    tally,            \* what the collaborators of the run did so far
    \* ---- RAG retriever (one packing run) ----
    ragMaxTokens,     \* RAGConfig.MaxTokens
    ragResults,       \* the ranked candidates handed to buildContext
    ragCtx,           \* the RAGContext it returned
    ragPc,            \* "rank" | "built"
    \* ---- document processor (one chunkText call) ----
    chunkSize,        \* DocumentProcessor.chunkSize
    chunkOverlap,     \* DocumentProcessor.chunkOverlap
    textChars,        \* len(text)
    textWords,        \* len(strings.Fields(text))
    textChunks,       \* the chunks returned, as word ranges [from, to)
    chunkPc,          \* "text" | "chunked"
    \* ---- document processor (document ids over ingestion runs) ----
    docRun,           \* the number of the ingestion run
    docIds,           \* per message and chunk index: the ids generated, first run or later
    docOut,           \* the ids of the documents of the last ProcessMessage
    \* ---- RAG retriever (one processResults call) ----
    rankMinScore,     \* RAGConfig.MinScore, in tenths
    rankTerms,        \* len(strings.Fields(query))
    rankDocuments,    \* the documents the vector search returned
    rankResults,      \* the results processResults returned
    rankPc,           \* "search" | "ranked"
    \* ---- prompt builder (one citation extraction) ----
    citeDocuments,    \* ragContext.Documents
    citeResponse,     \* the response of the model, as its pieces
    citeCitations,    \* the citations extracted
    citePc,           \* "respond" | "extracted"
    \* ---- conversation manager under concurrent callers ----
    mgrTable,         \* ConversationManager.conversations[id]: the object it holds
    mgrHeap,          \* the Conversation objects: [msgs, total, stamp]
    mgrMu,            \* Conversation.mu of each object: [w, r], writer and readers
    taskPc,           \* position of each caller
    taskObj,          \* the *Conversation it looked up
    taskMsg,          \* the message it adds / the fields it has copied
    mgrAdds,          \* AddMessage calls made so far (message ids, UpdatedAt)
    mgrSerial,        \* each object as the calls applied one at a time in
                      \* lock order leave it
    mgrMoment,        \* the conversation at the moment ExportConversation locked it
    \* ---- the two registries and the tasks that access them ----
    regInside,        \* the access each task is in the middle of
    \* ---- one IngestDirectory run ----
    dirPc,            \* "loop" | "returned"
    dirLeft,          \* files of the directory not yet ingested
    dirErr,           \* IngestDirectory returned an error
    dirStats,         \* totalStats
    dirRuns,          \* the per-file runs so far: what each IngestFile returned
    \* ---- one CSVParser used by concurrent ParseWithCallbacks calls ----
    parShared,        \* CSVParser.totalRecords, processedRecords, errorCount
    parCalls,         \* each call: its position, its file (a record is TRUE when it
                      \* parses and validates), the records left, the value it
                      \* loaded, the batches it delivered, the counts it reported
    \* ---- one ParseWithCallbacks call on its own CSVParser ----
    csvConfig,        \* ParserConfig: BatchSize, SkipErrors, ValidateRecords
    csvFile,          \* the records after the header, each by what becomes of it
    csvPc,            \* "header" | "read" | "done" (returned nil) |
                      \* "failed_header" | "failed_record" | "failed_callback"
    csvParser,        \* CSVParser.totalRecords, processedRecords, errorCount
    csvLoop,          \* locals of the call: the next record, batch, batchNum
    csvBatches,       \* the batchCallback calls made: [records, num]
    csvReports,       \* the progressCallback calls made: [processed, total, errors]
    \* ---- RAG retriever (one RetrieveContext call) ----
    retConfig,        \* RAGConfig: MaxDocuments, DiversityFactor (in tenths),
                      \* MinScore (in tenths), MaxTokens
    retDocuments,     \* the documents the vector search returns
    retResults,       \* what processResults returned
    retDiverse,       \* the results handed to buildContext
    retContext,       \* the RAGContext returned
    retPc,            \* "search" | "returned" | "failed"
    \* ---- document processor (one ProcessMessage call) ----
    pmConfig,         \* DocumentProcessor.chunkSize, chunkOverlap
    pmMsg,            \* the message: len(Content), its words, FileIDs not empty
    pmChunks,         \* chunks: for each chunk whether it is the empty string
    pmIdx,            \* the chunk the loop is at
    pmDocs,           \* len(documents)
    pmResult,         \* "none" | "nil" (nil, nil) | "documents" | "error"
    pmPc              \* "call" | "embed" | "returned"

convVars == <<cfgMaxMessages, convMaxTokens, convMessages, convTotalTokens,
              convAdds, ctxStatus, ctxReserved, ctxOut>>

hubVars == <<hubPc, registry, connId, connPc, writerPc, ctxDone, sendQ, sendClosed,
             closeCount, panic, smPc, smClient, smResult>>

chatVars == <<streamingEnabled, reqPc, reqConn, reqAcc, reqLast, reqCite, llmPc,
              llmLeft, errBuf, assistantTurns, persistedLen>>

\* the turn of a request before response generation
turnVars == <<convInTable, reqUser, reqRag, reqPrompt, llmCalls>>

ingVars == <<batchSize, workerCount, skipEmptyContent, parser, messageChan, chanClosed,
             workers, stats, statsMu, ingCtxDone, ingPc, ingErr, tally>>

ragVars == <<ragMaxTokens, ragResults, ragCtx, ragPc>>

\* the state of the pure functions checked on their own
chunkVars == <<chunkSize, chunkOverlap, textChars, textWords, textChunks, chunkPc>>

idVars == <<docRun, docIds, docOut>>

rankVars == <<rankMinScore, rankTerms, rankDocuments, rankResults, rankPc>>

citeVars == <<citeDocuments, citeResponse, citeCitations, citePc>>

mgrVars == <<mgrTable, mgrHeap, mgrMu, taskPc, taskObj, taskMsg, mgrAdds, mgrSerial,
             mgrMoment>>

\* the state of the concurrency models checked on their own
regVars == <<regInside>>

dirVars == <<dirPc, dirLeft, dirErr, dirStats, dirRuns>>

parVars == <<parShared, parCalls>>

csvVars == <<csvConfig, csvFile, csvPc, csvParser, csvLoop, csvBatches, csvReports>>

retVars == <<retConfig, retDocuments, retResults, retDiverse, retContext, retPc>>

pmVars == <<pmConfig, pmMsg, pmChunks, pmIdx, pmDocs, pmResult, pmPc>>

lateVars == <<csvVars, retVars, pmVars>>

concVars == <<mgrVars, regVars, dirVars, parVars, lateVars>>

fnVars == <<ragVars, chunkVars, idVars, rankVars, citeVars, concVars>>

vars == <<convVars, hubVars, chatVars, turnVars, ingVars, fnVars>>

\* what the actions of one subsystem leave alone
convOthers == <<hubVars, chatVars, turnVars, ingVars, fnVars>>
hubOthers == <<convVars, chatVars, turnVars, ingVars, fnVars>>
chatOthers == <<convVars, turnVars, ingVars, fnVars>>
turnOthers == <<convVars, ingVars, fnVars>>
ingOthers == <<convVars, hubVars, chatVars, turnVars, fnVars>>
progVars == <<convVars, hubVars, chatVars, turnVars, ingVars>>
ragOthers == <<progVars, chunkVars, idVars, rankVars, citeVars, concVars>>
chunkOthers == <<progVars, ragVars, idVars, rankVars, citeVars, concVars>>
idOthers == <<progVars, ragVars, chunkVars, rankVars, citeVars, concVars>>
rankOthers == <<progVars, ragVars, chunkVars, idVars, citeVars, concVars>>
citeOthers == <<progVars, ragVars, chunkVars, idVars, rankVars, concVars>>
pureVars == <<ragVars, chunkVars, idVars, rankVars, citeVars>>
mgrOthers == <<progVars, pureVars, regVars, dirVars, parVars, lateVars>>
regOthers == <<progVars, pureVars, mgrVars, dirVars, parVars, lateVars>>
dirOthers == <<progVars, pureVars, mgrVars, regVars, parVars, lateVars>>
parOthers == <<progVars, pureVars, mgrVars, regVars, dirVars, lateVars>>
earlyVars == <<progVars, pureVars, mgrVars, regVars, dirVars, parVars>>
csvOthers == <<earlyVars, retVars, pmVars>>
retOthers == <<earlyVars, csvVars, pmVars>>
pmOthers == <<earlyVars, csvVars, retVars>>

(***************************************************************************)
(* Helpers                                                                 *)
(***************************************************************************)
RECURSIVE SumTokens(_)
SumTokens(s) == IF s = <<>> THEN 0 ELSE Head(s).tokens + SumTokens(Tail(s))

\* a slice that drops from the newest end: s[:len(s)-from]
SliceKeepOldest(s, from) == SubSeq(s, 1, Len(s) - from)

\* Go slice s[from:] with a 0-based index
SliceFrom(s, from) == SubSeq(s, from + 1, Len(s))

Roles == {"user", "assistant", "system"}

(***************************************************************************)
(* Conversation manager                                                    *)
(***************************************************************************)
\* estimateTokens: ~4 characters per token
estimateTokens(len) == len \div 4

\* len(conv.Messages) > 0 && conv.Messages[0].Role == RoleSystem
HasLeadingSystem(msgs) == Len(msgs) > 0 /\ msgs[1].role = "system"

\* the eviction loop of manageContextWindow: returns <<TotalTokens, startIdx>>
RECURSIVE EvictLoop(_, _, _, _)
EvictLoop(msgs, total, max, startIdx) ==
    IF total > max /\ startIdx < Len(msgs) - 1
    THEN EvictLoop(msgs, total - msgs[startIdx + 1].tokens, max, startIdx + 1)
    ELSE <<total, startIdx>>

\* a token trim that evicts without decrementing TotalTokens
TrimLeavesTotal(conv, max) ==
    IF conv.total > max
    THEN LET start0 == IF HasLeadingSystem(conv.msgs) THEN 1 ELSE 0
             r      == EvictLoop(conv.msgs, conv.total, max, start0)
             kept   == (IF HasLeadingSystem(conv.msgs) THEN <<conv.msgs[1]>> ELSE <<>>)
                       \o SliceFrom(conv.msgs, r[2])
         IN  [msgs |-> kept, total |-> conv.total]
    ELSE conv

\* first half of manageContextWindow: the total-token budget
TrimToTokenBudget(conv, max) ==
    IF conv.total > max
    THEN LET start0 == IF HasLeadingSystem(conv.msgs) THEN 1 ELSE 0
             r      == EvictLoop(conv.msgs, conv.total, max, start0)
             kept   == (IF HasLeadingSystem(conv.msgs) THEN <<conv.msgs[1]>> ELSE <<>>)
                       \o SliceFrom(conv.msgs, r[2])
         IN  [msgs |-> kept, total |-> r[1]]
    ELSE conv

\* a message-count trim that keeps the message at startIdx as well
TrimKeepsOneMore(conv, maxMessages) ==
    IF Len(conv.msgs) > maxMessages
    THEN LET startIdx == Len(conv.msgs) - maxMessages
             kept == IF HasLeadingSystem(conv.msgs)
                     THEN <<conv.msgs[1]>> \o SliceFrom(conv.msgs, startIdx)
                     ELSE SliceFrom(conv.msgs, startIdx)
         IN  [msgs |-> kept, total |-> SumTokens(kept)]
    ELSE conv

\* second half of manageContextWindow: the message-count budget
TrimToMessageCount(conv, maxMessages) ==
    IF Len(conv.msgs) > maxMessages
    THEN LET startIdx == Len(conv.msgs) - maxMessages
             kept == IF HasLeadingSystem(conv.msgs)
                     THEN <<conv.msgs[1]>> \o SliceFrom(conv.msgs, startIdx + 1)
                     ELSE SliceFrom(conv.msgs, startIdx)
         IN  [msgs |-> kept, total |-> SumTokens(kept)]
    ELSE conv

manageContextWindow(conv, max, maxMessages) ==
    TrimToMessageCount(TrimToTokenBudget(conv, max), maxMessages)

\* the walk of GetContextMessages from the newest message backwards;
\* i is the 0-based index, out the messages collected so far
RECURSIVE ContextWalk(_, _, _, _, _, _)
ContextWalk(msgs, i, sysIncluded, tokenCount, available, out) ==
    IF i < 0 THEN out
    ELSE IF i = 0 /\ sysIncluded
         THEN ContextWalk(msgs, i - 1, sysIncluded, tokenCount, available, out)
         ELSE IF tokenCount + msgs[i + 1].tokens > available
              THEN out
              ELSE ContextWalk(msgs, i - 1, sysIncluded,
                               tokenCount + msgs[i + 1].tokens, available,
                               <<msgs[i + 1]>> \o out)

\* the messages GetContextMessages returns when it succeeds
ContextMessages(msgs, available) ==
    LET sys == HasLeadingSystem(msgs)
    IN  ContextWalk(msgs, Len(msgs) - 1, sys,
                    IF sys THEN msgs[1].tokens ELSE 0, available,
                    IF sys THEN <<msgs[1]>> ELSE <<>>)

\* NewConversationManager(config) followed by CreateConversation: sysTok is
\* the token estimate of the configured system prompt, -1 for no prompt
InitConv ==
    /\ cfgMaxMessages \in 1..MaxMsgCfg
    /\ convMaxTokens \in 1..MaxBudget
    /\ \E sysTok \in -1..MaxSysTok :
          /\ convMessages = IF sysTok >= 0
                            THEN <<[id |-> 0, role |-> "system", tokens |-> sysTok]>>
                            ELSE <<>>
          /\ convTotalTokens = IF sysTok >= 0 THEN sysTok ELSE 0
    /\ convAdds = 0
    /\ ctxStatus = "none"
    /\ ctxReserved = 0
    /\ ctxOut = <<>>

\* AddMessage(conversationID, msg): tok is msg.Tokens, len is len(msg.Content)
AddMessage(role, tok, len) ==
    /\ convAdds < MaxAdds
    /\ LET tokens == IF tok = 0 THEN estimateTokens(len) ELSE tok
           msg == [id |-> convAdds + 1, role |-> role, tokens |-> tokens]
           appended == [msgs |-> Append(convMessages, msg),
                        total |-> convTotalTokens + tokens]
           conv == manageContextWindow(appended, convMaxTokens, cfgMaxMessages)
       IN  /\ convMessages' = conv.msgs
           /\ convTotalTokens' = conv.total
    /\ convAdds' = convAdds + 1
    /\ ctxStatus' = "none"
    /\ ctxReserved' = 0
    /\ ctxOut' = <<>>
    /\ UNCHANGED <<cfgMaxMessages, convMaxTokens>>
    /\ UNCHANGED convOthers

\* GetContextMessages(conversationID, additionalTokens)
GetContextMessages(additionalTokens) ==
    /\ LET availableTokens == convMaxTokens - additionalTokens
       IN  IF availableTokens <= 0
           THEN /\ ctxStatus' = "error"
                /\ ctxOut' = <<>>
           ELSE /\ ctxStatus' = "ok"
                /\ ctxOut' = ContextMessages(convMessages, availableTokens)
    /\ ctxReserved' = additionalTokens
    /\ UNCHANGED <<cfgMaxMessages, convMaxTokens, convMessages, convTotalTokens, convAdds>>
    /\ UNCHANGED convOthers

(***************************************************************************)
(* Realtime hub: Hub.Run, ServeWS, readPump, writePump, Hub.SendMessage    *)
(***************************************************************************)
Conns == 1..NumConns
\* the X-Client-ID values the connections may present (two connections may
\* present the same one)
Ids == 1..NumConns
Reqs == 1..NumReqs

\* a Message on a client's outbound channel: its kind and the chat request
\* it belongs to (0 for pong, broadcast and direct messages)
Msg(kind, req) == [kind |-> kind, req |-> req]

\* the Go process runs until a goroutine panics
Alive == panic = "none"

\* len(client.send) < cap(client.send)
HasRoom(c) == Len(sendQ[c]) < SendCap

\* client.send <- m, the blocking send statement: it waits while the buffer
\* is full and panics on a closed channel
BlockingSend(c, m) ==
    IF sendClosed[c]
    THEN /\ panic' = "send on closed channel"
         /\ UNCHANGED sendQ
    ELSE /\ HasRoom(c)
         /\ sendQ' = [sendQ EXCEPT ![c] = Append(@, m)]
         /\ UNCHANGED panic

\* close(client.send): closing a closed channel panics
CloseChan(closed, c) == [closed EXCEPT ![c] = TRUE]

\* NewHub() with Hub.Run started, no connection yet
InitHub ==
    /\ hubPc = "run"
    /\ registry = [i \in Ids |-> 0]
    /\ connId = [c \in Conns |-> 0]
    /\ connPc = [c \in Conns |-> "none"]
    /\ writerPc = [c \in Conns |-> "none"]
    /\ ctxDone = [c \in Conns |-> FALSE]
    /\ sendQ = [c \in Conns |-> <<>>]
    /\ sendClosed = [c \in Conns |-> FALSE]
    /\ closeCount = [c \in Conns |-> 0]
    /\ panic = "none"
    /\ smPc = "idle"
    /\ smClient = 0
    /\ smResult = "none"

\* ServeWS up to "h.register <- client": the client is created with the id of
\* the X-Client-ID header and waits for the hub to receive it
ServeWS(c, id) ==
    /\ Alive
    /\ connPc[c] = "none"
    /\ connId' = [connId EXCEPT ![c] = id]
    /\ connPc' = [connPc EXCEPT ![c] = "register"]
    /\ UNCHANGED <<hubPc, registry, writerPc, ctxDone, sendQ, sendClosed, closeCount,
                   panic, smPc, smClient, smResult>>
    /\ UNCHANGED hubOthers

\* Hub.Run, case client := <-h.register; ServeWS then starts both pumps
HubRegister(c) ==
    /\ Alive
    /\ hubPc = "run"
    /\ connPc[c] = "register"
    /\ registry' = [registry EXCEPT ![connId[c]] = c]
    /\ connPc' = [connPc EXCEPT ![c] = "read"]
    /\ writerPc' = [writerPc EXCEPT ![c] = "run"]
    /\ UNCHANGED <<hubPc, connId, ctxDone, sendQ, sendClosed, closeCount, panic,
                   smPc, smClient, smResult>>
    /\ UNCHANGED hubOthers

\* Hub.Run, case client := <-h.unregister: the entry under the client's id is
\* deleted and the client's own channel closed when the id is registered;
\* readPump then closes the connection and returns
HubUnregister(c) ==
    /\ Alive
    /\ hubPc = "run"
    /\ connPc[c] = "unregister"
    /\ IF registry[connId[c]] # 0
       THEN /\ registry' = [registry EXCEPT ![connId[c]] = 0]
            /\ closeCount' = [closeCount EXCEPT ![c] = @ + 1]
            /\ sendClosed' = CloseChan(sendClosed, c)
            /\ panic' = IF sendClosed[c] THEN "close of closed channel" ELSE panic
       ELSE UNCHANGED <<registry, closeCount, sendClosed, panic>>
    /\ connPc' = [connPc EXCEPT ![c] = IF registry[connId[c]] # 0 /\ sendClosed[c]
                                       THEN @ ELSE "closed"]
    /\ UNCHANGED <<hubPc, connId, writerPc, ctxDone, sendQ, smPc, smClient, smResult>>
    /\ UNCHANGED hubOthers

\* the clients in Hub.clients
Registered == {registry[i] : i \in {j \in Ids : registry[j] # 0}}

\* Hub.Run, case <-ctx.Done(): every registered client's channel is closed
\* (it stays in the registry) and Run returns
HubShutdown ==
    /\ Alive
    /\ hubPc = "run"
    /\ hubPc' = "stopped"
    /\ closeCount' = [c \in Conns |-> IF c \in Registered THEN closeCount[c] + 1
                                      ELSE closeCount[c]]
    /\ sendClosed' = [c \in Conns |-> sendClosed[c] \/ c \in Registered]
    /\ panic' = IF \E c \in Registered : sendClosed[c]
                THEN "close of closed channel" ELSE panic
    /\ UNCHANGED <<registry, connId, connPc, writerPc, ctxDone, sendQ, smPc, smClient,
                   smResult>>
    /\ UNCHANGED hubOthers

\* a broadcast select whose comparison lets a full channel take one more message
BroadcastDeliversOffByOne(c) == Len(sendQ[c]) <= SendCap

\* the broadcast case's select for one client: TRUE when the message is
\* enqueued, FALSE when the default branch (close and delete) is taken
BroadcastDelivers(c) == HasRoom(c)

\* Hub.Run, case message := <-h.broadcast (Hub.BroadcastMessage hands the
\* message over): non-blocking send to every registered client, a client
\* with a full channel is closed and deleted
HubBroadcast ==
    /\ Alive
    /\ hubPc = "run"
    /\ LET hit == {c \in Registered : sendClosed[c]}
           delivered == {c \in Registered \ hit : BroadcastDelivers(c)}
           dropped == (Registered \ hit) \ delivered
       IN  /\ sendQ' = [c \in Conns |-> IF c \in delivered
                                        THEN Append(sendQ[c], Msg("broadcast", 0))
                                        ELSE sendQ[c]]
           /\ sendClosed' = [c \in Conns |-> sendClosed[c] \/ c \in dropped]
           /\ closeCount' = [c \in Conns |-> IF c \in dropped THEN closeCount[c] + 1
                                             ELSE closeCount[c]]
           /\ registry' = [i \in Ids |-> IF registry[i] \in dropped THEN 0 ELSE registry[i]]
           /\ panic' = IF hit # {} THEN "send on closed channel" ELSE panic
    /\ UNCHANGED <<hubPc, connId, connPc, writerPc, ctxDone, smPc, smClient, smResult>>
    /\ UNCHANGED hubOthers

\* readPump: ReadJSON returned a ping
ReadPing(c) ==
    /\ Alive
    /\ connPc[c] = "read"
    /\ connPc' = [connPc EXCEPT ![c] = "pong"]
    /\ UNCHANGED <<hubPc, registry, connId, writerPc, ctxDone, sendQ, sendClosed,
                   closeCount, panic, smPc, smClient, smResult>>
    /\ UNCHANGED hubOthers

\* readPump: c.send <- Message{Type: MessageTypePong}
PongSend(c) ==
    /\ Alive
    /\ connPc[c] = "pong"
    /\ BlockingSend(c, Msg("pong", 0))
    /\ connPc' = IF sendClosed[c] THEN connPc ELSE [connPc EXCEPT ![c] = "read"]
    /\ UNCHANGED <<hubPc, registry, connId, writerPc, ctxDone, sendClosed, closeCount,
                   smPc, smClient, smResult>>
    /\ UNCHANGED hubOthers

\* readPump: ReadJSON failed (the peer went away, a read deadline passed, the
\* writer closed the connection); the deferred function marks the client
\* disconnected, cancels its context and goes to "c.hub.unregister <- c"
ReadFail(c) ==
    /\ Alive
    /\ connPc[c] = "read"
    /\ connPc' = [connPc EXCEPT ![c] = "unregister"]
    /\ ctxDone' = [ctxDone EXCEPT ![c] = TRUE]
    /\ UNCHANGED <<hubPc, registry, connId, writerPc, sendQ, sendClosed, closeCount,
                   panic, smPc, smClient, smResult>>
    /\ UNCHANGED hubOthers

\* writePump: a message is received from c.send and written to the socket
WriterSend(c) ==
    /\ Alive
    /\ writerPc[c] = "run"
    /\ sendQ[c] # <<>>
    /\ sendQ' = [sendQ EXCEPT ![c] = Tail(@)]
    /\ UNCHANGED <<hubPc, registry, connId, connPc, writerPc, ctxDone, sendClosed,
                   closeCount, panic, smPc, smClient, smResult>>
    /\ UNCHANGED hubOthers

\* writePump returns: the channel is closed and drained (!ok), or a write of
\* a message or of a keepalive ping failed
WriterExit(c) ==
    /\ Alive
    /\ writerPc[c] = "run"
    /\ writerPc' = [writerPc EXCEPT ![c] = "done"]
    /\ UNCHANGED <<hubPc, registry, connId, connPc, ctxDone, sendQ, sendClosed,
                   closeCount, panic, smPc, smClient, smResult>>
    /\ UNCHANGED hubOthers

\* Hub.SendMessage: the lookup of the client under the read lock
SendMessageLookup(id) ==
    /\ Alive
    /\ smPc = "idle"
    /\ IF registry[id] = 0
       THEN /\ smResult' = "ErrCloseSent"
            /\ UNCHANGED <<smPc, smClient>>
       ELSE /\ smPc' = "send"
            /\ smClient' = registry[id]
            /\ smResult' = "none"
    /\ UNCHANGED <<hubPc, registry, connId, connPc, writerPc, ctxDone, sendQ,
                   sendClosed, closeCount, panic>>
    /\ UNCHANGED hubOthers

\* Hub.SendMessage: the select with a default branch, after the lock is released
SendMessageSend ==
    /\ Alive
    /\ smPc = "send"
    /\ IF sendClosed[smClient]
       THEN /\ panic' = "send on closed channel"
            /\ UNCHANGED <<sendQ, smPc, smClient, smResult>>
       ELSE /\ IF HasRoom(smClient)
               THEN /\ sendQ' = [sendQ EXCEPT ![smClient] = Append(@, Msg("direct", 0))]
                    /\ smResult' = "ok"
               ELSE /\ smResult' = "ErrCloseSent"
                    /\ UNCHANGED sendQ
            /\ smPc' = "idle"
            /\ smClient' = 0
            /\ UNCHANGED panic
    /\ UNCHANGED <<hubPc, registry, connId, connPc, writerPc, ctxDone, sendClosed,
                   closeCount>>
    /\ UNCHANGED hubOthers

(***************************************************************************)
(* Chat orchestrator: Service.HandleChatMessage, streamResponse,           *)
(* generateResponse and the send helpers; ollama.Client.ChatStream         *)
(***************************************************************************)
\* NewService(hub, vectorClient, config): no request yet
InitChat ==
    /\ streamingEnabled \in BOOLEAN
    /\ reqPc = [r \in Reqs |-> "idle"]
    /\ reqConn = [r \in Reqs |-> 0]
    /\ reqAcc = [r \in Reqs |-> 0]
    /\ reqLast = [r \in Reqs |-> FALSE]
    /\ reqCite = [r \in Reqs |-> FALSE]
    /\ llmPc = [r \in Reqs |-> "idle"]
    /\ llmLeft = [r \in Reqs |-> 0]
    /\ errBuf = [r \in Reqs |-> FALSE]
    /\ assistantTurns = [r \in Reqs |-> 0]
    /\ persistedLen = [r \in Reqs |-> 0]
    /\ convInTable = [r \in Reqs |-> FALSE]
    /\ reqUser = [r \in Reqs |-> "none"]
    /\ reqRag = [r \in Reqs |-> "none"]
    /\ reqPrompt = [r \in Reqs |-> "none"]
    /\ llmCalls = [r \in Reqs |-> 0]

\* positions of a request inside streamResponse / generateResponse
StreamPcs == {"start_send", "stream", "chunk_send", "stream_err_send", "complete_send",
              "cite_send", "persist"}
SinglePcs == {"chat", "chat_err_send", "cite_send1", "persist1", "resp_send"}

\* the send statement a request is at: <<kind of the message, next position>>
SendStep(r) ==
    CASE reqPc[r] = "reject_send"     -> <<"error", "rejected">>
      [] reqPc[r] = "add_err_send"    -> <<"error", "failed">>
      [] reqPc[r] = "start_send"      -> <<"start", "stream">>
      [] reqPc[r] = "chunk_send"      -> <<"chunk", IF reqLast[r] THEN "complete_send"
                                                   ELSE "stream">>
      [] reqPc[r] = "stream_err_send" -> <<"error", "complete_send">>
      [] reqPc[r] = "complete_send"   -> <<"complete", IF reqCite[r] /\ reqAcc[r] > 0
                                                      THEN "cite_send"
                                                      ELSE "persist">>
      [] reqPc[r] = "cite_send"       -> <<"citation", "persist">>
      [] reqPc[r] = "chat_err_send"   -> <<"error", "failed">>
      [] reqPc[r] = "cite_send1"      -> <<"citation", "persist1">>
      [] reqPc[r] = "resp_send"       -> <<"response", "done">>

SendPcs == {"reject_send", "add_err_send", "start_send", "chunk_send", "stream_err_send",
            "complete_send", "cite_send", "chat_err_send", "cite_send1", "resp_send"}

\* readPump, case MessageTypeChat: go c.hub.chatService.HandleChatMessage(c.ctx, c, msg)
ReadChat(c, r) ==
    /\ Alive
    /\ connPc[c] = "read"
    /\ reqPc[r] = "idle"
    /\ reqPc' = [reqPc EXCEPT ![r] = "handle"]
    /\ reqConn' = [reqConn EXCEPT ![r] = c]
    /\ UNCHANGED <<hubVars, streamingEnabled, reqAcc, reqLast, reqCite, llmPc, llmLeft,
                   errBuf, assistantTurns, persistedLen>>
    /\ UNCHANGED chatOthers

\* HandleChatMessage, service.go:97-103: a malformed chat message is answered
\* with an error; otherwise GetOrCreateConversation finds the conversation
\* in the table or creates it there
HandleChatMessage(r, valid) ==
    /\ Alive
    /\ reqPc[r] = "handle"
    /\ reqPc' = [reqPc EXCEPT ![r] = IF valid THEN "add_lookup" ELSE "reject_send"]
    /\ convInTable' = [convInTable EXCEPT ![r] = valid]
    /\ UNCHANGED <<reqUser, reqRag, reqPrompt, llmCalls>>
    /\ UNCHANGED <<hubVars, streamingEnabled, reqConn, reqAcc, reqLast, reqCite, llmPc,
                   llmLeft, errBuf, assistantTurns, persistedLen>>
    /\ UNCHANGED turnOthers

\* CleanupOldConversations: a conversation last updated before the cutoff is
\* deleted from the table, under the manager's lock
CleanupOldConversations(r) ==
    /\ Alive
    /\ convInTable[r]
    /\ convInTable' = [convInTable EXCEPT ![r] = FALSE]
    /\ UNCHANGED <<reqUser, reqRag, reqPrompt, llmCalls>>
    /\ UNCHANGED <<hubVars, chatVars>>
    /\ UNCHANGED turnOthers

\* AddMessage of the user turn, first half: the conversation is looked up
\* under the manager's read lock, which is released at once; a missing
\* conversation is an error, answered with "Failed to save message"
AddMessageLookup(r) ==
    /\ Alive
    /\ reqPc[r] = "add_lookup"
    /\ reqPc' = [reqPc EXCEPT ![r] = IF convInTable[r] THEN "add_append"
                                     ELSE "add_err_send"]
    /\ reqUser' = [reqUser EXCEPT ![r] = IF convInTable[r] THEN @ ELSE "missing"]
    /\ UNCHANGED <<convInTable, reqRag, reqPrompt, llmCalls>>
    /\ UNCHANGED <<hubVars, streamingEnabled, reqConn, reqAcc, reqLast, reqCite, llmPc,
                   llmLeft, errBuf, assistantTurns, persistedLen>>
    /\ UNCHANGED turnOthers

\* AddMessage of the user turn, second half: under the conversation's lock
\* the message is appended to the conversation that was looked up
AddMessageAppend(r) ==
    /\ Alive
    /\ reqPc[r] = "add_append"
    /\ reqUser' = [reqUser EXCEPT ![r] = IF convInTable[r] THEN "added" ELSE "orphaned"]
    /\ reqPc' = [reqPc EXCEPT ![r] = "retrieve"]
    /\ UNCHANGED <<convInTable, reqRag, reqPrompt, llmCalls>>
    /\ UNCHANGED <<hubVars, streamingEnabled, reqConn, reqAcc, reqLast, reqCite, llmPc,
                   llmLeft, errBuf, assistantTurns, persistedLen>>
    /\ UNCHANGED turnOthers

\* what RetrieveContext can do: "off" when EnableRAG is false, "ok" with
\* documents, "empty" without any, "failed" when the embedding or the search
\* fails
RagOutcomes == {"off", "ok", "empty", "failed"}

\* ragContext after service.go:122-129: nil unless retrieval ran and succeeded
RagContext(outcome) == IF outcome \in {"ok", "empty"} THEN outcome ELSE "nil"

\* buildUserMessage: the context block is written only for a context with documents
buildUserMessage(ragContext) == IF ragContext = "ok" THEN "context" ELSE "plain"

\* where a turn goes after retrieval, were its error returned to the client
TurnFailsOnRetrievalError(outcome, streaming) ==
    IF outcome = "failed" THEN "chat_err_send"
    ELSE IF streaming THEN "start_send" ELSE "chat"

\* service.go:125-128 and 150-154: the error of RetrieveContext is logged and
\* the turn goes on to streamResponse or generateResponse
TurnAfterRetrieval(outcome, streaming) == IF streaming THEN "start_send" ELSE "chat"

\* HandleChatMessage from retrieval to response generation: RetrieveContext,
\* GetContextMessages, BuildRAGPrompt, then streamResponse (which calls
\* ChatStream) or generateResponse (which calls Chat); chunks is the number
\* of chunks the model will stream, cite whether citations will be extracted
\* from the response (includeCitations && ragContext != nil && len(citations) > 0)
RetrieveContext(r, outcome, chunks, cite) ==
    /\ Alive
    /\ reqPc[r] = "retrieve"
    /\ reqRag' = [reqRag EXCEPT ![r] = outcome]
    /\ reqPrompt' = [reqPrompt EXCEPT ![r] = buildUserMessage(RagContext(outcome))]
    /\ reqCite' = [reqCite EXCEPT ![r] = cite /\ RagContext(outcome) = "ok"]
    /\ LET next == TurnAfterRetrieval(outcome, streamingEnabled)
       IN  /\ reqPc' = [reqPc EXCEPT ![r] = next]
           /\ llmCalls' = [llmCalls EXCEPT ![r] = IF next \in {"start_send", "chat"}
                                                  THEN @ + 1 ELSE @]
           /\ IF next = "start_send"
              THEN /\ llmPc' = [llmPc EXCEPT ![r] = "run"]
                   /\ llmLeft' = [llmLeft EXCEPT ![r] = chunks]
              ELSE UNCHANGED <<llmPc, llmLeft>>
    /\ UNCHANGED <<convInTable, reqUser>>
    /\ UNCHANGED <<hubVars, streamingEnabled, reqConn, reqAcc, reqLast, errBuf,
                   assistantTurns, persistedLen>>
    /\ UNCHANGED turnOthers

\* sendError, sendStreamingStart, sendStreamingChunk, sendStreamingComplete,
\* sendCitations, sendResponse: client.send <- msg
RequestSend(r) ==
    /\ Alive
    /\ reqPc[r] \in SendPcs
    /\ BlockingSend(reqConn[r], Msg(SendStep(r)[1], r))
    /\ reqPc' = IF sendClosed[reqConn[r]] THEN reqPc
                ELSE [reqPc EXCEPT ![r] = SendStep(r)[2]]
    /\ UNCHANGED <<hubPc, registry, connId, connPc, writerPc, ctxDone, sendClosed,
                   closeCount, smPc, smClient, smResult>>
    /\ UNCHANGED <<streamingEnabled, reqConn, reqAcc, reqLast, reqCite, llmPc, llmLeft,
                   errBuf, assistantTurns, persistedLen>>
    /\ UNCHANGED chatOthers

\* ChatStream's goroutine fails (request, status or decode error): the error
\* goes to errChan and both channels are closed
StreamProducerFail(r) ==
    /\ Alive
    /\ llmPc[r] = "run"
    /\ errBuf' = [errBuf EXCEPT ![r] = TRUE]
    /\ llmPc' = [llmPc EXCEPT ![r] = "closed"]
    /\ UNCHANGED <<hubVars, streamingEnabled, reqPc, reqConn, reqAcc, reqLast, reqCite,
                   llmLeft, assistantTurns, persistedLen>>
    /\ UNCHANGED chatOthers

\* ChatStream's goroutine ends without an error: the body reached EOF, or
\* ctx.Done() was selected while a chunk waited to be taken
StreamProducerEnd(r) ==
    /\ Alive
    /\ llmPc[r] = "run"
    /\ llmLeft[r] = 0 \/ ctxDone[reqConn[r]]
    /\ llmPc' = [llmPc EXCEPT ![r] = "closed"]
    /\ UNCHANGED <<hubVars, streamingEnabled, reqPc, reqConn, reqAcc, reqLast, reqCite,
                   llmLeft, errBuf, assistantTurns, persistedLen>>
    /\ UNCHANGED chatOthers

\* streamResponse, case chunk, ok := <-respChan with ok: the producer hands
\* over a chunk; non-empty content is appended to fullResponse and relayed,
\* a Done chunk ends the loop (the producer then stops as well)
StreamChunk(r, nonEmpty, done) ==
    /\ Alive
    /\ reqPc[r] = "stream"
    /\ llmPc[r] = "run"
    /\ llmLeft[r] > 0
    /\ llmLeft' = [llmLeft EXCEPT ![r] = @ - 1]
    /\ llmPc' = [llmPc EXCEPT ![r] = IF done THEN "closed" ELSE @]
    /\ reqAcc' = [reqAcc EXCEPT ![r] = IF nonEmpty THEN @ + 1 ELSE @]
    /\ reqLast' = [reqLast EXCEPT ![r] = done]
    /\ reqPc' = [reqPc EXCEPT ![r] = IF nonEmpty THEN "chunk_send"
                                     ELSE IF done THEN "complete_send" ELSE "stream"]
    /\ UNCHANGED <<hubVars, streamingEnabled, reqConn, reqCite, errBuf, assistantTurns,
                   persistedLen>>
    /\ UNCHANGED chatOthers

\* streamResponse, case chunk, ok := <-respChan with !ok (channel closed),
\* or case <-ctx.Done(): the loop returns
StreamLoopReturn(r) ==
    /\ Alive
    /\ reqPc[r] = "stream"
    /\ llmPc[r] = "closed" \/ ctxDone[reqConn[r]]
    /\ reqPc' = [reqPc EXCEPT ![r] = "complete_send"]
    /\ UNCHANGED <<hubVars, streamingEnabled, reqConn, reqAcc, reqLast, reqCite, llmPc,
                   llmLeft, errBuf, assistantTurns, persistedLen>>
    /\ UNCHANGED chatOthers

\* streamResponse, case err := <-errChan with err != nil
StreamError(r) ==
    /\ Alive
    /\ reqPc[r] = "stream"
    /\ errBuf[r]
    /\ errBuf' = [errBuf EXCEPT ![r] = FALSE]
    /\ reqPc' = [reqPc EXCEPT ![r] = "stream_err_send"]
    /\ UNCHANGED <<hubVars, streamingEnabled, reqConn, reqAcc, reqLast, reqCite, llmPc,
                   llmLeft, assistantTurns, persistedLen>>
    /\ UNCHANGED chatOthers

\* generateResponse: s.ollamaClient.Chat returns a response or an error
ChatReturns(r, ok) ==
    /\ Alive
    /\ reqPc[r] = "chat"
    /\ IF ok
       THEN /\ reqAcc' = [reqAcc EXCEPT ![r] = 1]
            /\ reqPc' = [reqPc EXCEPT ![r] = IF reqCite[r] THEN "cite_send1"
                                             ELSE "persist1"]
       ELSE /\ reqPc' = [reqPc EXCEPT ![r] = "chat_err_send"]
            /\ UNCHANGED reqAcc
    /\ UNCHANGED <<hubVars, streamingEnabled, reqConn, reqLast, reqCite, llmPc, llmLeft,
                   errBuf,
                   assistantTurns, persistedLen>>
    /\ UNCHANGED chatOthers

\* s.conversationManager.AddMessage(conversationID, assistantMsg); its error
\* (conversation not found) is logged
PersistAssistant(r) ==
    /\ Alive
    /\ reqPc[r] \in {"persist", "persist1"}
    /\ IF convInTable[r]
       THEN /\ assistantTurns' = [assistantTurns EXCEPT ![r] = @ + 1]
            /\ persistedLen' = [persistedLen EXCEPT ![r] = reqAcc[r]]
       ELSE UNCHANGED <<assistantTurns, persistedLen>>
    /\ reqPc' = [reqPc EXCEPT ![r] = IF reqPc[r] = "persist" THEN "done" ELSE "resp_send"]
    /\ UNCHANGED <<hubVars, streamingEnabled, reqConn, reqAcc, reqLast, reqCite, llmPc,
                   llmLeft, errBuf>>
    /\ UNCHANGED chatOthers

(***************************************************************************)
(* Conversation manager under concurrent callers: AddMessage,              *)
(* GetContextMessages, ExportConversation, ImportConversation              *)
(***************************************************************************)
\* callers: AddMessage tasks, one GetContextMessages task, one
\* ExportConversation task
Writers == 1..MaxWriters
ContextTask == MaxWriters + 1
ExportTask == MaxWriters + 2
Tasks == 1..ExportTask

\* the conversation CreateConversation made and the one ExportConversation allocates
Objs == {"conv", "export"}

EmptyConv == [msgs |-> <<>>, total |-> 0, stamp |-> 0]

\* a lock that is never held
MuAlwaysAvailable(mu, exclusive) == TRUE

\* sync.RWMutex: Lock waits for the writer and the readers, RLock for the writer
MuAvailable(mu, exclusive) == mu.w = 0 /\ (exclusive => mu.r = {})

\* AddMessage between conv.mu.Lock() and manageContextWindow: append,
\* TotalTokens += msg.Tokens, UpdatedAt = now
AppendMessage(conv, msg) ==
    [msgs |-> Append(conv.msgs, msg), total |-> conv.total + msg.tokens,
     stamp |-> msg.id]

\* AddMessage, m.manageContextWindow(conv)
TrimConversation(conv) ==
    LET c == manageContextWindow([msgs |-> conv.msgs, total |-> conv.total],
                                 MgrMaxTokens, MgrMaxMessages)
    IN  [msgs |-> c.msgs, total |-> c.total, stamp |-> conv.stamp]

\* NewConversationManager and CreateConversation without a system prompt
InitMgr ==
    /\ mgrTable = "conv"
    /\ mgrHeap = [o \in Objs |-> EmptyConv]
    /\ mgrMu = [o \in Objs |-> [w |-> 0, r |-> {}]]
    /\ taskPc = [t \in Tasks |-> "idle"]
    /\ taskObj = [t \in Tasks |-> "conv"]
    /\ taskMsg = [t \in Tasks |-> EmptyConv]
    /\ mgrAdds = 0
    /\ mgrSerial = [o \in Objs |-> EmptyConv]
    /\ mgrMoment = EmptyConv

\* the lookup a call starts with: m.conversations[conversationID] under the
\* manager's read lock (AddMessage; GetConversation for the other two); an
\* AddMessage caller brings its message
TaskLookup(t, tok) ==
    /\ taskPc[t] = "idle"
    /\ t \in Writers => mgrAdds < MaxAdds
    /\ taskObj' = [taskObj EXCEPT ![t] = mgrTable]
    /\ taskPc' = [taskPc EXCEPT ![t] = "lock"]
    /\ IF t \in Writers
       THEN /\ taskMsg' = [taskMsg EXCEPT ![t] =
                              [id |-> mgrAdds + 1, role |-> "user", tokens |-> tok]]
            /\ mgrAdds' = mgrAdds + 1
       ELSE UNCHANGED <<taskMsg, mgrAdds>>
    /\ UNCHANGED <<mgrTable, mgrHeap, mgrMu, mgrSerial, mgrMoment>>
    /\ UNCHANGED mgrOthers

\* conv.mu.Lock() of AddMessage, conv.mu.RLock() of GetContextMessages and
\* ExportConversation
TaskLock(t) ==
    /\ taskPc[t] = "lock"
    /\ LET o == taskObj[t]
       IN  /\ MuAvailable(mgrMu[o], t \in Writers)
           /\ mgrMu' = [mgrMu EXCEPT ![o] = IF t \in Writers
                                            THEN [@ EXCEPT !.w = t]
                                            ELSE [@ EXCEPT !.r = @ \cup {t}]]
           /\ mgrSerial' = [mgrSerial EXCEPT ![o] =
                               IF t \in Writers
                               THEN TrimConversation(AppendMessage(@, taskMsg[t]))
                               ELSE @]
           /\ mgrMoment' = IF t = ExportTask THEN mgrHeap[o] ELSE mgrMoment
    /\ taskPc' = [taskPc EXCEPT ![t] = IF t \in Writers THEN "append"
                                       ELSE IF t = ContextTask THEN "read"
                                       ELSE "fields"]
    /\ UNCHANGED <<mgrTable, mgrHeap, taskObj, taskMsg, mgrAdds>>
    /\ UNCHANGED mgrOthers

\* AddMessage: the message is appended to the conversation looked up
TaskAppend(t) ==
    /\ taskPc[t] = "append"
    /\ mgrHeap' = [mgrHeap EXCEPT ![taskObj[t]] = AppendMessage(@, taskMsg[t])]
    /\ taskPc' = [taskPc EXCEPT ![t] = "trim"]
    /\ UNCHANGED <<mgrTable, mgrMu, taskObj, taskMsg, mgrAdds, mgrSerial, mgrMoment>>
    /\ UNCHANGED mgrOthers

\* AddMessage: manageContextWindow, then the deferred conv.mu.Unlock()
TaskTrim(t) ==
    /\ taskPc[t] = "trim"
    /\ mgrHeap' = [mgrHeap EXCEPT ![taskObj[t]] = TrimConversation(@)]
    /\ mgrMu' = [mgrMu EXCEPT ![taskObj[t]].w = 0]
    /\ taskPc' = [taskPc EXCEPT ![t] = "idle"]
    /\ UNCHANGED <<mgrTable, taskObj, taskMsg, mgrAdds, mgrSerial, mgrMoment>>
    /\ UNCHANGED mgrOthers

\* GetContextMessages: the walk over conv.Messages, then the deferred RUnlock
TaskRead(t) ==
    /\ taskPc[t] = "read"
    /\ taskMsg' = [taskMsg EXCEPT ![t] = mgrHeap[taskObj[t]]]
    /\ mgrMu' = [mgrMu EXCEPT ![taskObj[t]].r = @ \ {t}]
    /\ taskPc' = [taskPc EXCEPT ![t] = "idle"]
    /\ UNCHANGED <<mgrTable, mgrHeap, taskObj, mgrAdds, mgrSerial, mgrMoment>>
    /\ UNCHANGED mgrOthers

\* ExportConversation, the composite literal: Messages is allocated with
\* len(conv.Messages) zero messages, UpdatedAt and TotalTokens are copied
ExportFields(t) ==
    /\ taskPc[t] = "fields"
    /\ LET conv == mgrHeap[taskObj[t]]
       IN  taskMsg' = [taskMsg EXCEPT ![t] =
                          [msgs |-> [i \in 1..Len(conv.msgs) |->
                                        [id |-> 0, role |-> "", tokens |-> 0]],
                           total |-> conv.total, stamp |-> conv.stamp]]
    /\ taskPc' = [taskPc EXCEPT ![t] = "copy"]
    /\ UNCHANGED <<mgrTable, mgrHeap, mgrMu, taskObj, mgrAdds, mgrSerial, mgrMoment>>
    /\ UNCHANGED mgrOthers

\* ExportConversation: copy(exportedConv.Messages, conv.Messages) fills the
\* allocated messages, the deferred RUnlock runs, the copy is returned
ExportCopy(t) ==
    /\ taskPc[t] = "copy"
    /\ LET src == mgrHeap[taskObj[t]].msgs
           dst == taskMsg[t].msgs
           copied == [taskMsg[t] EXCEPT !.msgs =
                         [i \in 1..Len(dst) |-> IF i <= Len(src) THEN src[i] ELSE dst[i]]]
       IN  /\ mgrHeap' = [mgrHeap EXCEPT !["export"] = copied]
           /\ mgrSerial' = [mgrSerial EXCEPT !["export"] = copied]
    /\ mgrMu' = [mgrMu EXCEPT ![taskObj[t]].r = @ \ {t}]
    /\ taskPc' = [taskPc EXCEPT ![t] = "done"]
    /\ UNCHANGED <<mgrTable, taskObj, taskMsg, mgrAdds, mgrMoment>>
    /\ UNCHANGED mgrOthers

\* ImportConversation(conv) with the conversation ExportConversation
\* returned: m.conversations[conv.ID] = conv
ImportConversation ==
    /\ taskPc[ExportTask] = "done"
    /\ mgrTable = "conv"
    /\ mgrTable' = "export"
    /\ UNCHANGED <<mgrHeap, mgrMu, taskPc, taskObj, taskMsg, mgrAdds, mgrSerial,
                   mgrMoment>>
    /\ UNCHANGED mgrOthers

(***************************************************************************)
(* The two registries: Hub.clients and ConversationManager.conversations   *)
(***************************************************************************)
RegOp(name, task, reg, lock, access) ==
    [name |-> name, task |-> task, reg |-> reg, lock |-> lock, access |-> access]

\* every statement of the program that touches a registry, with the lock
\* (h.mu or m.mu) it holds meanwhile: Hub.Run is one task; GetStats holds
\* only the Service's own mutex, which no other access takes
RegOps ==
    { RegOp("Run.register", "hub", "clients", "exclusive", "write"),
      RegOp("Run.unregister", "hub", "clients", "exclusive", "write"),
      RegOp("Run.broadcast", "hub", "clients", "shared", "read"),
      RegOp("Run.broadcast.drop", "hub", "clients", "shared", "write"),
      RegOp("Run.shutdown", "hub", "clients", "shared", "read"),
      RegOp("SendMessage", "sender", "clients", "shared", "read"),
      RegOp("GetStats.clients", "stats", "clients", "none", "read"),
      RegOp("GetStats.conversations", "stats", "conversations", "none", "read"),
      RegOp("CreateConversation", "chat", "conversations", "exclusive", "write"),
      RegOp("GetConversation", "chat", "conversations", "shared", "read"),
      RegOp("AddMessage", "chat", "conversations", "shared", "read"),
      RegOp("CleanupOldConversations", "sweeper", "conversations", "exclusive", "write"),
      RegOp("ImportConversation", "sweeper", "conversations", "exclusive", "write") }

RegTasks == {op.task : op \in RegOps}

RegIdle == RegOp("idle", "", "none", "none", "none")

\* sync.RWMutex of a registry: Lock waits for every holder, RLock for the
\* writer; an access that takes no lock waits for nothing
RegLockGranted(op, held) ==
    \A o \in held :
        o.reg = op.reg =>
            /\ op.lock = "exclusive" => o.lock = "none"
            /\ op.lock = "shared" => o.lock # "exclusive"

InitReg == regInside = [t \in RegTasks |-> RegIdle]

\* a task takes the lock of an access, if any, and starts the access
RegBegin(op) ==
    /\ regInside[op.task] = RegIdle
    /\ RegLockGranted(op, {regInside[u] : u \in RegTasks \ {op.task}})
    /\ regInside' = [regInside EXCEPT ![op.task] = op]
    /\ UNCHANGED regOthers

\* the access is over and its lock released
RegEnd(t) ==
    /\ regInside[t] # RegIdle
    /\ regInside' = [regInside EXCEPT ![t] = RegIdle]
    /\ UNCHANGED regOthers

(***************************************************************************)
(* Ingestion pipeline: CSVParser.ParseWithCallbacks, Service.IngestFile,   *)
(* Service.processBatch, IngestionStats                                    *)
(***************************************************************************)
Workers == 1..MaxWorkers

\* a record that parseRecord and validateMessage accept becomes a message;
\* of a message the pipeline looks at whether Content is empty and whether
\* FileIDs is
Messages == {[empty |-> FALSE, files |-> FALSE],
             [empty |-> TRUE, files |-> FALSE],
             [empty |-> TRUE, files |-> TRUE]}

\* the reporting interval of ParseWithCallbacks: p.totalRecords%100 == 0
ProgressEvery == 100

ZeroStats == [total |-> 0, processed |-> 0, skipped |-> 0, failed |-> 0,
              docs |-> 0, stored |-> 0, failedDocs |-> 0,
              errors |-> [message |-> 0, document |-> 0]]

ZeroWorker == [pc |-> "recv", batch |-> <<>>, idx |-> 0, docs |-> 0, doc |-> 0,
               processed |-> 0, skipped |-> 0, failed |-> 0, stored |-> 0,
               calls |-> 0, failures |-> 0, worked |-> FALSE,
               op |-> "none", snap |-> ZeroStats]

\* what the collaborators did so far: messages handed to the workers, how
\* many of them are empty without attachments, ProcessMessage failures,
\* documents returned, Store successes and failures
ZeroTally == [handed |-> 0, skippable |-> 0, failed |-> 0, docs |-> 0, stored |-> 0,
              failedDocs |-> 0]

\* NewService(vectorStore, processor, config) and the start of IngestFile:
\* stats allocated, channels made, workerCount workers started
IngestStart(bs, wc, skip) ==
    /\ batchSize = bs
    /\ workerCount = wc
    /\ skipEmptyContent = skip
    /\ parser = [pc |-> "open", total |-> 0, processed |-> 0, errors |-> 0,
                 batch |-> <<>>, batchNum |-> 0]
    /\ messageChan = <<>>
    /\ chanClosed = FALSE
    /\ workers = [w \in Workers |-> IF w <= wc THEN ZeroWorker
                                    ELSE [ZeroWorker EXCEPT !.pc = "absent"]]
    /\ stats = ZeroStats
    /\ statsMu = 0
    /\ ingCtxDone = FALSE
    /\ ingPc = "parse"
    /\ ingErr = FALSE
    /\ tally = ZeroTally

InitIngest ==
    \E bs \in 1..MaxBatch, wc \in 0..MaxWorkers, skip \in BOOLEAN : IngestStart(bs, wc, skip)

\* s.skipEmptyContent && msg.Content == "" && len(msg.FileIDs) == 0
ShouldSkipIgnoringFiles(skip, m) == skip /\ m.empty

ShouldSkip(skip, m) == skip /\ m.empty /\ ~m.files

\* IngestionStats.mu is free
MutexNeverHeld(mu) == TRUE

MutexFree(mu) == mu = 0

\* the caller's context is cancelled
IngestCancel ==
    /\ ingPc = "parse"
    /\ ~ingCtxDone
    /\ ingCtxDone' = TRUE
    /\ UNCHANGED <<batchSize, workerCount, skipEmptyContent, parser, messageChan,
                   chanClosed, workers, stats, statsMu, ingPc, ingErr, tally>>
    /\ UNCHANGED ingOthers

\* ParseFile: os.Open / file.Stat / the header row; on failure it returns
\* before any record is read
ParserOpen(ok) ==
    /\ ingPc = "parse"
    /\ parser.pc = "open"
    /\ parser' = [parser EXCEPT !.pc = IF ok THEN "read" ELSE "failed"]
    /\ UNCHANGED <<batchSize, workerCount, skipEmptyContent, messageChan, chanClosed,
                   workers, stats, statsMu, ingCtxDone, ingPc, ingErr, tally>>
    /\ UNCHANGED ingOthers

\* progressCallback(processed, total, errors) as IngestFile passes it:
\* stats.TotalMessages = total
Progress(st, total) == [st EXCEPT !.total = total]

\* ParseWithCallbacks: one iteration of the read loop on a record (SkipErrors
\* and ValidateRecords are set by NewService)
ParserRecord(valid, msg) ==
    /\ ingPc = "parse"
    /\ parser.pc = "read"
    /\ parser.total < MaxRecords
    /\ IF ~valid
       THEN \* recordError; p.totalRecords++; continue
            /\ parser' = [parser EXCEPT !.total = @ + 1, !.errors = @ + 1]
            /\ UNCHANGED stats
       ELSE LET batch == Append(parser.batch, msg)
                total == parser.total + 1
                full == Len(batch) >= batchSize
            IN  /\ parser' = [parser EXCEPT !.total = total,
                                            !.processed = @ + 1,
                                            !.batch = batch,
                                            !.pc = IF full THEN "send" ELSE "read"]
                /\ stats' = IF ~full /\ total % ProgressEvery = 0
                            THEN Progress(stats, total) ELSE stats
    /\ UNCHANGED <<batchSize, workerCount, skipEmptyContent, messageChan, chanClosed,
                   workers, statsMu, ingCtxDone, ingPc, ingErr, tally>>
    /\ UNCHANGED ingOthers

\* ParseWithCallbacks: reader.Read returned io.EOF
ParserEOF ==
    /\ ingPc = "parse"
    /\ parser.pc = "read"
    /\ IF parser.batch # <<>>
       THEN /\ parser' = [parser EXCEPT !.pc = "send_final"]
            /\ UNCHANGED stats
       ELSE /\ parser' = [parser EXCEPT !.pc = "done"]
            /\ stats' = Progress(stats, parser.total)
    /\ UNCHANGED <<batchSize, workerCount, skipEmptyContent, messageChan, chanClosed,
                   workers, statsMu, ingCtxDone, ingPc, ingErr, tally>>
    /\ UNCHANGED ingOthers

\* the batch callback of IngestFile, case messageChan <- messages: the batch
\* is buffered (capacity workerCount) and the parser goes on
ParserSend ==
    /\ ingPc = "parse"
    /\ parser.pc \in {"send", "send_final"}
    /\ Len(messageChan) < workerCount
    /\ messageChan' = Append(messageChan, parser.batch)
    /\ tally' = [tally EXCEPT
            !.handed = @ + Len(parser.batch),
            !.skippable = @ + Cardinality({i \in 1..Len(parser.batch) :
                                 parser.batch[i].empty /\ ~parser.batch[i].files})]
    /\ IF parser.pc = "send"
       THEN /\ parser' = [parser EXCEPT !.pc = "read", !.batch = <<>>, !.batchNum = @ + 1]
            /\ stats' = IF parser.total % ProgressEvery = 0
                        THEN Progress(stats, parser.total) ELSE stats
       ELSE /\ parser' = [parser EXCEPT !.pc = "done"]
            /\ stats' = Progress(stats, parser.total)
    /\ UNCHANGED <<batchSize, workerCount, skipEmptyContent, chanClosed, workers,
                   statsMu, ingCtxDone, ingPc, ingErr>>
    /\ UNCHANGED ingOthers

\* the batch callback of IngestFile, case <-ctx.Done(): ParseWithCallbacks
\* returns "batch callback error"
ParserSendCancelled ==
    /\ ingPc = "parse"
    /\ parser.pc \in {"send", "send_final"}
    /\ ingCtxDone
    /\ parser' = [parser EXCEPT !.pc = "failed"]
    /\ UNCHANGED <<batchSize, workerCount, skipEmptyContent, messageChan, chanClosed,
                   workers, stats, statsMu, ingCtxDone, ingPc, ingErr, tally>>
    /\ UNCHANGED ingOthers

\* IngestFile after ParseFile returned: close(messageChan), then wg.Wait()
IngestCloseChan ==
    /\ ingPc = "parse"
    /\ parser.pc \in {"done", "failed"}
    /\ chanClosed' = TRUE
    /\ ingPc' = "wait"
    /\ UNCHANGED <<batchSize, workerCount, skipEmptyContent, parser, messageChan,
                   workers, stats, statsMu, ingCtxDone, ingErr, tally>>
    /\ UNCHANGED ingOthers

\* IngestFile: wg.Wait() returns, errorChan is closed, the stats are returned
\* with the parse error if there was one
IngestReturn ==
    /\ ingPc = "wait"
    /\ \A w \in Workers : workers[w].pc \in {"done", "absent"}
    /\ ingPc' = "returned"
    /\ ingErr' = (parser.pc = "failed")
    /\ UNCHANGED <<batchSize, workerCount, skipEmptyContent, parser, messageChan,
                   chanClosed, workers, stats, statsMu, ingCtxDone, tally>>
    /\ UNCHANGED ingOthers

\* a worker's "for messages := range messageChan": the next batch is taken
\* and processBatch starts, or the channel is closed and drained and the
\* worker exits
WorkerRecv(w) ==
    /\ workers[w].pc = "recv"
    /\ IF messageChan # <<>>
       THEN /\ workers' = [workers EXCEPT ![w] =
                   [@ EXCEPT !.pc = "msg", !.batch = Head(messageChan), !.idx = 1,
                             !.processed = 0, !.skipped = 0, !.failed = 0, !.calls = 0,
                             !.failures = 0]]
            /\ messageChan' = Tail(messageChan)
       ELSE /\ chanClosed
            /\ workers' = [workers EXCEPT ![w] = [@ EXCEPT !.pc = "done"]]
            /\ UNCHANGED messageChan
    /\ UNCHANGED <<batchSize, workerCount, skipEmptyContent, parser, chanClosed, stats,
                   statsMu, ingCtxDone, ingPc, ingErr, tally>>
    /\ UNCHANGED ingOthers

\* processBatch: one iteration of "for _, msg := range messages" up to the
\* return of ProcessMessage (an error, or ndocs documents), or the end of the
\* loop
WorkerMessage(w, procOk, ndocs) ==
    /\ workers[w].pc = "msg"
    /\ LET wk == workers[w]
       IN  IF wk.idx > Len(wk.batch)
           THEN \* stats.UpdateStats(processed, skipped, failed, 0, 0, 0)
                /\ workers' = [workers EXCEPT ![w] = [@ EXCEPT !.pc = "lock", !.op = "final"]]
                /\ UNCHANGED tally
           ELSE IF ShouldSkip(skipEmptyContent, wk.batch[wk.idx])
                THEN /\ workers' = [workers EXCEPT ![w] =
                            [@ EXCEPT !.skipped = @ + 1, !.idx = @ + 1]]
                     /\ UNCHANGED tally
                ELSE IF ~procOk
                     THEN \* failed++; stats.AddError(...); continue
                          /\ workers' = [workers EXCEPT ![w] =
                                 [@ EXCEPT !.calls = @ + 1, !.failures = @ + 1,
                                           !.failed = @ + 1,
                                           !.pc = "lock", !.op = "error_msg"]]
                          /\ tally' = [tally EXCEPT !.failed = @ + 1]
                     ELSE /\ workers' = [workers EXCEPT ![w] =
                                 [@ EXCEPT !.calls = @ + 1, !.pc = "store",
                                           !.docs = ndocs, !.doc = 1, !.stored = 0]]
                          /\ tally' = [tally EXCEPT !.docs = @ + ndocs]
    /\ UNCHANGED <<batchSize, workerCount, skipEmptyContent, parser, messageChan,
                   chanClosed, stats, statsMu, ingCtxDone, ingPc, ingErr>>
    /\ UNCHANGED ingOthers

\* processBatch: one iteration of "for _, doc := range docs" (Store
\* succeeds or fails), or its end
WorkerStore(w, ok) ==
    /\ workers[w].pc = "store"
    /\ LET wk == workers[w]
       IN  IF wk.doc > wk.docs
           THEN \* stats.UpdateStats(0, 0, 0, len(docs), storedCount, len(docs)-storedCount)
                /\ workers' = [workers EXCEPT ![w] = [@ EXCEPT !.pc = "lock", !.op = "docs"]]
                /\ UNCHANGED tally
           ELSE IF ok
                THEN /\ workers' = [workers EXCEPT ![w] =
                            [@ EXCEPT !.stored = @ + 1, !.doc = @ + 1]]
                     /\ tally' = [tally EXCEPT !.stored = @ + 1]
                ELSE \* stats.AddError(...)
                     /\ workers' = [workers EXCEPT ![w] =
                            [@ EXCEPT !.pc = "lock", !.op = "error_doc"]]
                     /\ tally' = [tally EXCEPT !.failedDocs = @ + 1]
    /\ UNCHANGED <<batchSize, workerCount, skipEmptyContent, parser, messageChan,
                   chanClosed, stats, statsMu, ingCtxDone, ingPc, ingErr>>
    /\ UNCHANGED ingOthers

\* UpdateStats / AddError: s.mu.Lock(), then the fields are read
WorkerLock(w) ==
    /\ workers[w].pc = "lock"
    /\ MutexFree(statsMu)
    /\ statsMu' = w
    /\ workers' = [workers EXCEPT ![w] = [@ EXCEPT !.pc = "write", !.snap = stats]]
    /\ UNCHANGED <<batchSize, workerCount, skipEmptyContent, parser, messageChan,
                   chanClosed, stats, ingCtxDone, ingPc, ingErr, tally>>
    /\ UNCHANGED ingOthers

\* UpdateStats(processed, skipped, failed, documents, storedDocs, failedDocs):
\* each counter is written as the value read plus the argument
UpdateStats(st, snap, processed, skipped, failed, documents, storedDocs, failedDocs) ==
    [st EXCEPT !.processed = snap.processed + processed,
               !.skipped = snap.skipped + skipped,
               !.failed = snap.failed + failed,
               !.docs = snap.docs + documents,
               !.stored = snap.stored + storedDocs,
               !.failedDocs = snap.failedDocs + failedDocs]

\* AddError: s.Errors = append(s.Errors, err); of the list the model keeps
\* how many entries of each kind it holds
AddError(st, snap, err) == [st EXCEPT !.errors = [snap.errors EXCEPT ![err] = @ + 1]]

\* a store loop that ends at the first Store error
StopAtStoreError(wk) == wk.docs + 1

\* for _, doc := range docs: after a Store error the loop goes on with the
\* next document
NextDocument(wk) == wk.doc + 1

\* UpdateStats / AddError: the fields are written and the deferred
\* s.mu.Unlock() runs; processBatch goes on after the call
WorkerWrite(w) ==
    /\ workers[w].pc = "write"
    /\ statsMu' = 0
    /\ LET wk == workers[w]
       IN  CASE wk.op = "final" ->
                  /\ stats' = UpdateStats(stats, wk.snap, wk.processed, wk.skipped,
                                          wk.failed, 0, 0, 0)
                  /\ workers' = [workers EXCEPT ![w] =
                        [@ EXCEPT !.pc = "recv", !.op = "none", !.snap = ZeroStats,
                                  !.batch = <<>>, !.idx = 0, !.doc = 0, !.stored = 0,
                                  !.worked = TRUE]]
             [] wk.op = "error_msg" ->
                  /\ stats' = AddError(stats, wk.snap, "message")
                  /\ workers' = [workers EXCEPT ![w] =
                        [@ EXCEPT !.pc = "msg", !.op = "none", !.snap = ZeroStats,
                                  !.idx = @ + 1]]
             [] wk.op = "error_doc" ->
                  /\ stats' = AddError(stats, wk.snap, "document")
                  /\ workers' = [workers EXCEPT ![w] =
                        [@ EXCEPT !.pc = "store", !.op = "none", !.snap = ZeroStats,
                                  !.doc = NextDocument(wk)]]
             [] wk.op = "docs" ->
                  /\ stats' = UpdateStats(stats, wk.snap, 0, 0, 0, wk.docs, wk.stored,
                                          wk.docs - wk.stored)
                  /\ workers' = [workers EXCEPT ![w] =
                        [@ EXCEPT !.pc = "msg", !.op = "none", !.snap = ZeroStats,
                                  !.processed = @ + 1, !.idx = @ + 1, !.docs = 0,
                                  !.doc = 0, !.stored = 0]]
    /\ UNCHANGED <<batchSize, workerCount, skipEmptyContent, parser, messageChan,
                   chanClosed, ingCtxDone, ingPc, ingErr, tally>>
    /\ UNCHANGED ingOthers

(***************************************************************************)
(* Directory ingestion: Service.IngestDirectory                            *)
(***************************************************************************)
\* what one IngestFile call can return: its stats (TotalMessages is the
\* parser's record count, which includes the records it rejected; each
\* processed message gave up to MaxDocs documents, stored or not; every
\* failed message and every failed store is an entry of Errors) and
\* whether it returned an error (the file could not be opened or parsed
\* to its end)
FileRuns ==
    LET Possible(run) == /\ run.stats.stored <= run.stats.docs
                         /\ run.stats.docs <= run.stats.processed * MaxDocs
        all == { [stats |-> [total |-> p + k + f + bad, processed |-> p,
                             skipped |-> k, failed |-> f, docs |-> d, stored |-> s,
                             failedDocs |-> d - s,
                             errors |-> [message |-> f, document |-> d - s]],
                  err |-> e] :
                   p \in 0..MaxPerKind, k \in 0..MaxPerKind, f \in 0..MaxPerKind,
                   bad \in 0..MaxPerKind, e \in BOOLEAN,
                   d \in 0..(MaxPerKind * MaxDocs), s \in 0..(MaxPerKind * MaxDocs) }
    IN  {run \in all : Possible(run)}

\* IngestDirectory, "Merge stats": totalStats.UpdateStats(fileStats....)
MergeStats(total, file) ==
    UpdateStats(total, total, file.processed, file.skipped, file.failed, file.docs,
                file.stored, file.failedDocs)

\* IngestDirectory up to the loop: totalStats is empty, the glob found files files
DirStart(files) ==
    /\ dirPc = "loop"
    /\ dirLeft = files
    /\ dirErr = FALSE
    /\ dirStats = [ZeroStats EXCEPT !.errors = [message |-> 0, document |-> 0, file |-> 0]]
    /\ dirRuns = <<>>

InitDir == \E files \in 0..MaxFiles : DirStart(files)

\* one round of the loop over the files: IngestFile returns; its error is
\* added to totalStats and the loop continues, otherwise its stats are merged
DirIngestFile(run) ==
    /\ dirPc = "loop"
    /\ dirLeft > 0
    /\ dirLeft' = dirLeft - 1
    /\ dirRuns' = Append(dirRuns, run)
    /\ dirStats' = IF run.err THEN AddError(dirStats, dirStats, "file")
                   ELSE MergeStats(dirStats, run.stats)
    /\ UNCHANGED <<dirPc, dirErr>>
    /\ UNCHANGED dirOthers

\* IngestDirectory returns: with an error when the directory has no CSV
\* file, with totalStats after the last file otherwise
DirReturn ==
    /\ dirPc = "loop"
    /\ dirLeft = 0
    /\ dirPc' = "returned"
    /\ dirErr' = (dirRuns = <<>>)
    /\ UNCHANGED <<dirLeft, dirStats, dirRuns>>
    /\ UNCHANGED dirOthers

(***************************************************************************)
(* CSV parser shared by concurrent calls: CSVParser.ParseWithCallbacks     *)
(***************************************************************************)
Calls == 1..MaxCalls

\* the files a call may read: up to MaxRecords records
ParFiles == UNION {[1..n -> BOOLEAN] : n \in 0..MaxRecords}

ZeroCounts == [total |-> 0, processed |-> 0, errors |-> 0]

\* NewCSVParser, and the calls about to start, each on its own reader
ParStart(files) ==
    /\ parShared = ZeroCounts
    /\ parCalls = [c \in Calls |->
                      [pc |-> "idle", file |-> files[c], next |-> 1, tmp |-> 0,
                       batches |-> <<>>, report |-> ZeroCounts]]

InitPar == \E files \in [Calls -> ParFiles] : ParStart(files)

\* ParseWithCallbacks after the header: p.totalRecords = 0,
\* p.processedRecords = 0, p.errorCount = 0
ParReset(c) ==
    /\ parCalls[c].pc = "idle"
    /\ parShared' = ZeroCounts
    /\ parCalls' = [parCalls EXCEPT ![c].pc = "read"]
    /\ UNCHANGED parOthers

\* reader.Read(): the next record, or io.EOF
ParRead(c) ==
    /\ parCalls[c].pc = "read"
    /\ parCalls' = [parCalls EXCEPT ![c].pc =
                       IF parCalls[c].next > Len(parCalls[c].file) THEN "report"
                       ELSE "total_load"]
    /\ UNCHANGED parShared
    /\ UNCHANGED parOthers

\* the counter an increment of the call is about: p.totalRecords for every
\* record, then p.processedRecords for a record that parses and validates,
\* p.errorCount (recordError) for one that does not
ParCounter(call) ==
    IF call.pc \in {"total_load", "total_store"} THEN "total"
    ELSE IF call.file[call.next] THEN "processed" ELSE "errors"

\* p.x++ on a field no lock protects, first half: the field is read
ParLoad(c) ==
    /\ parCalls[c].pc \in {"total_load", "count_load"}
    /\ parCalls' = [parCalls EXCEPT
            ![c].tmp = parShared[ParCounter(parCalls[c])],
            ![c].pc = IF parCalls[c].pc = "total_load" THEN "total_store"
                      ELSE "count_store"]
    /\ UNCHANGED parShared
    /\ UNCHANGED parOthers

\* p.x++, second half: the value read plus one is written; after the second
\* counter of a good record its batch (BatchSize 1) goes to the callback
ParStore(c) ==
    /\ parCalls[c].pc \in {"total_store", "count_store"}
    /\ LET call == parCalls[c]
       IN  /\ parShared' = [parShared EXCEPT ![ParCounter(call)] = call.tmp + 1]
           /\ parCalls' = [parCalls EXCEPT ![c] =
                  IF call.pc = "total_store"
                  THEN [call EXCEPT !.pc = "count_load"]
                  ELSE [call EXCEPT !.pc = "read", !.next = @ + 1,
                                    !.batches = IF call.file[call.next]
                                                THEN Append(@, call.next) ELSE @]]
    /\ UNCHANGED parOthers

\* the final progressCallback(p.processedRecords, p.totalRecords, p.errorCount)
ParReport(c) ==
    /\ parCalls[c].pc = "report"
    /\ parCalls' = [parCalls EXCEPT ![c].report = parShared, ![c].pc = "done"]
    /\ UNCHANGED parShared
    /\ UNCHANGED parOthers

(***************************************************************************)
(* RAG retriever: processResults, buildContext, truncateDocument           *)
(***************************************************************************)
\* remainingTokens > 100: the smallest remainder a truncated document is
\* packed into
MinUsefulChunk == 100

\* len(" [truncated]")
TruncSuffixLen == 12

\* RAGRetriever.estimateTokens: len(text) / 4
ragEstimateTokens(len) == len \div 4

\* content lengths of the candidates: a few tokens, or more than the
\* smallest useful remainder
PackLens == {4 * t : t \in 0..MaxPackTok}
            \cup {4 * (MinUsefulChunk + t) : t \in 1..MaxPackTok}

\* position of the last "." of a content, -1 when it has none: in the first
\* half of the smallest truncation window, or at its very end
PackDots == {-1, 2 * MinUsefulChunk + 3, 4 * MinUsefulChunk + 3}

\* RAGConfig.MaxTokens: too small for any truncation, or just above the
\* smallest useful remainder
PackBudgets == (1..MaxPackTok) \cup {MinUsefulChunk + t : t \in 1..MaxPackTok}

\* a ranked candidate as processResults hands it on: TokenCount is the
\* estimate of its content
Candidate(id, len, dot) ==
    [id |-> id, len |-> len, dot |-> dot, tokens |-> ragEstimateTokens(len), cut |-> FALSE]

\* truncateDocument(doc, maxTokens): the length of the returned content and
\* whether it is a truncation
truncateDocument(doc, maxTokens) ==
    LET maxChars == maxTokens * 4
        lastPeriod == IF doc.dot >= 0 /\ doc.dot < maxChars THEN doc.dot ELSE -1
        kept == IF lastPeriod > maxChars \div 2 THEN lastPeriod + 1 ELSE maxChars
    IN  IF doc.len <= maxChars
        THEN [len |-> doc.len, cut |-> FALSE]
        ELSE [len |-> kept + TruncSuffixLen, cut |-> TRUE]

\* the loop of buildContext over results[i..]: ctx holds the documents
\* appended so far, totalTokens and includedDocs
RECURSIVE BuildLoop(_, _, _, _)
BuildLoop(results, i, ctx, maxTokens) ==
    IF i > Len(results) THEN ctx
    ELSE LET result == results[i]
         IN  IF ctx.total + result.tokens > maxTokens
             THEN LET remainingTokens == maxTokens - ctx.total
                      t == truncateDocument(result, remainingTokens)
                      truncated == [result EXCEPT !.len = t.len, !.cut = t.cut,
                                                  !.tokens = ragEstimateTokens(t.len)]
                  IN  IF remainingTokens > MinUsefulChunk
                      THEN [docs |-> Append(ctx.docs, truncated),
                            total |-> ctx.total + truncated.tokens,
                            included |-> ctx.included + 1]
                      ELSE ctx
             ELSE BuildLoop(results, i + 1,
                            [docs |-> Append(ctx.docs, result),
                             total |-> ctx.total + result.tokens,
                             included |-> ctx.included + 1],
                            maxTokens)

\* buildContext(query, results): the RAGContext with its Metadata
buildContext(results, maxTokens) ==
    LET ctx == BuildLoop(results, 1, [docs |-> <<>>, total |-> 0, included |-> 0], maxTokens)
    IN  [Documents |-> ctx.docs,
         TotalTokens |-> ctx.total,
         total_retrieved |-> Len(results),
         included_documents |-> ctx.included,
         truncated |-> ctx.included < Len(results)]

EmptyContext == [Documents |-> <<>>, TotalTokens |-> 0, total_retrieved |-> 0,
                 included_documents |-> 0, truncated |-> FALSE]

\* a retriever configured with MaxTokens = maxTokens and no candidate yet
PackStart(maxTokens) ==
    /\ ragMaxTokens = maxTokens
    /\ ragResults = <<>>
    /\ ragCtx = EmptyContext
    /\ ragPc = "rank"

InitPack == \E maxTokens \in PackBudgets : PackStart(maxTokens)

\* the ranked list grows by one candidate
PackCandidate(len, dot) ==
    /\ ragPc = "rank"
    /\ Len(ragResults) < MaxCands
    /\ dot < len
    /\ ragResults' = Append(ragResults, Candidate(Len(ragResults) + 1, len, dot))
    /\ UNCHANGED <<ragMaxTokens, ragCtx, ragPc>>
    /\ UNCHANGED ragOthers

\* context := r.buildContext(query, results)
BuildContext ==
    /\ ragPc = "rank"
    /\ ragCtx' = buildContext(ragResults, ragMaxTokens)
    /\ ragPc' = "built"
    /\ UNCHANGED <<ragMaxTokens, ragResults>>
    /\ UNCHANGED ragOthers

(***************************************************************************)
(* RAG retriever: processResults and calculateRelevance                    *)
(* A query of n terms scores every document in multiples of 1/(10 n), so   *)
(* the scores of one run are kept as integers on the scale 10 n; the query *)
(* without terms (only white space) divides 0.0 by 0.0 and scores NaN.     *)
(***************************************************************************)
\* a float64 that is a number, on the scale of the run
Num(x) == [nan |-> FALSE, num |-> x]

\* the float64 NaN
NaN == [nan |-> TRUE, num |-> 0]

\* a < b and a > b on float64: false as soon as one side is NaN
FLess(a, b) == ~a.nan /\ ~b.nan /\ a.num < b.num
FGreater(a, b) == FLess(b, a)

\* r.calculateRelevance(doc, query), for a query of terms terms of which
\* doc.match occur in the content
calculateRelevance(doc, terms) ==
    IF terms = 0 THEN NaN
    ELSE LET finalScore == 7 * terms + 3 * doc.match + (IF doc.author THEN terms ELSE 0)
         IN  Num(IF finalScore > 10 * terms THEN 10 * terms ELSE finalScore)

\* the loop of processResults over scored candidates: a candidate whose score
\* is below minScore is dropped
RECURSIVE FilterLoop(_, _, _, _)
FilterLoop(scored, i, minScore, results) ==
    IF i > Len(scored) THEN results
    ELSE FilterLoop(scored, i + 1, minScore,
                    IF FLess(scored[i].Score, minScore) THEN results
                    ELSE Append(results, scored[i]))

\* one step of the insertion sort sort.Slice runs on a short slice: x moves
\* towards the front while less(x, its predecessor)
RECURSIVE InsertResult(_, _)
InsertResult(sorted, x) ==
    IF sorted # <<>> /\ FGreater(x.Score, sorted[Len(sorted)].Score)
    THEN Append(InsertResult(SubSeq(sorted, 1, Len(sorted) - 1), x), sorted[Len(sorted)])
    ELSE Append(sorted, x)

\* sort.Slice(results, func(i, j) { return results[i].Score > results[j].Score })
RECURSIVE SortLoop(_, _, _)
SortLoop(results, i, sorted) ==
    IF i > Len(results) THEN sorted
    ELSE SortLoop(results, i + 1, InsertResult(sorted, results[i]))

\* what processResults does with the scores once they are computed
filterAndSort(scored, minScore) ==
    SortLoop(FilterLoop(scored, 1, minScore, <<>>), 1, <<>>)

\* r.processResults(documents, query)
processResults(documents, terms, minScore) ==
    filterAndSort([i \in 1..Len(documents) |->
                      [id |-> documents[i].id,
                       Score |-> calculateRelevance(documents[i], terms)]],
                  Num(minScore * terms))

\* a retriever with MinScore = minScore / 10 is asked a query of terms terms
RankStart(minScore, terms) ==
    /\ rankMinScore = minScore
    /\ rankTerms = terms
    /\ rankDocuments = <<>>
    /\ rankResults = <<>>
    /\ rankPc = "search"

InitRank == \E minScore \in 0..10, terms \in 0..MaxTerms : RankStart(minScore, terms)

\* the vector search returns one more document
SearchHit(match, author) ==
    /\ rankPc = "search"
    /\ Len(rankDocuments) < MaxHits
    /\ match <= rankTerms
    /\ rankDocuments' = Append(rankDocuments,
                               [id |-> Len(rankDocuments) + 1, match |-> match,
                                author |-> author])
    /\ UNCHANGED <<rankMinScore, rankTerms, rankResults, rankPc>>
    /\ UNCHANGED rankOthers

\* results := r.processResults(documents, query)
ProcessResults ==
    /\ rankPc = "search"
    /\ rankResults' = processResults(rankDocuments, rankTerms, rankMinScore)
    /\ rankPc' = "ranked"
    /\ UNCHANGED <<rankMinScore, rankTerms, rankDocuments>>
    /\ UNCHANGED rankOthers

(***************************************************************************)
(* Prompt builder: ExtractCitationsFromResponse                            *)
(* Texts are sequences of bytes; the response is made of the pieces a      *)
(* reference is made of, and of other text.                                *)
(***************************************************************************)
\* the decimal digits of n >= 0, as fmt's %d writes them
RECURSIVE Decimal(_)
Decimal(n) == IF n < 10 THEN <<48 + n>> ELSE Append(Decimal(n \div 10), 48 + (n % 10))

\* "[Document "
RefOpen == <<91, 68, 111, 99, 117, 109, 101, 110, 116, 32>>

\* the pieces of text the model's response is put together from:
\* "[Document ", "]", "0", "1" and "x"
Pieces == {RefOpen, <<93>>, <<48>>, <<49>>, <<120>>}

\* the text a sequence of pieces spells
RECURSIVE Concat(_)
Concat(pieces) == IF pieces = <<>> THEN <<>> ELSE Head(pieces) \o Concat(Tail(pieces))

\* strings.Contains(s, substr)
Contains(str, substr) ==
    \E k \in 0..(Len(str) - Len(substr)) : SubSeq(str, k + 1, k + Len(substr)) = substr

\* a reference without its closing bracket
DocRefUnclosed(i) == RefOpen \o Decimal(i)

\* docRef := fmt.Sprintf("[Document %d]", i+1), for the 1-based i
DocRef(i) == RefOpen \o Decimal(i) \o <<93>>

\* the retrieved documents of a context of n documents
ContextDocuments(n) == [i \in 1..n |-> [ID |-> <<"doc", i>>]]

\* the loop of ExtractCitationsFromResponse from document i on
RECURSIVE ExtractLoop(_, _, _, _)
ExtractLoop(response, documents, i, citations) ==
    IF i > Len(documents) THEN citations
    ELSE ExtractLoop(response, documents, i + 1,
                     IF Contains(response, DocRef(i))
                     THEN Append(citations, [DocumentID |-> documents[i].ID])
                     ELSE citations)

\* b.ExtractCitationsFromResponse(response, ragContext)
ExtractCitationsFromResponse(response, documents) ==
    ExtractLoop(response, documents, 1, <<>>)

\* a context of n documents, and a response the model has not yet written
CiteStart(n) ==
    /\ citeDocuments = ContextDocuments(n)
    /\ citeResponse = <<>>
    /\ citeCitations = <<>>
    /\ citePc = "respond"

\* contexts of no, one, two and many documents
DocCounts == {0, 1, 2, MaxCtxDocs}

InitCite == \E n \in DocCounts : CiteStart(n)

\* the model's response grows by one piece
ResponsePiece(piece) ==
    /\ citePc = "respond"
    /\ Len(citeResponse) < MaxPieces
    /\ citeResponse' = Append(citeResponse, piece)
    /\ UNCHANGED <<citeDocuments, citeCitations, citePc>>
    /\ UNCHANGED citeOthers

\* citations := s.promptBuilder.ExtractCitationsFromResponse(response, ragContext)
ExtractCitations ==
    /\ citePc = "respond"
    /\ citeCitations' = ExtractCitationsFromResponse(Concat(citeResponse), citeDocuments)
    /\ citePc' = "extracted"
    /\ UNCHANGED <<citeDocuments, citeResponse>>
    /\ UNCHANGED citeOthers

(***************************************************************************)
(* Document processor: chunkText                                           *)
(***************************************************************************)
\* the fewest characters a text of L words has: one-letter words separated
\* by single spaces
MinChars(L) == IF L = 0 THEN 0 ELSE 2 * L - 1

\* chunkText advances by the chunk size alone
ChunkStepNoOverlap(c, o) == c

\* i += p.chunkSize - p.chunkOverlap
ChunkStep(c, o) == c - o

\* a chunk end that is not clamped to the number of words
ChunkEndUnclamped(i, c, L) == i + c

\* end := i + p.chunkSize; if end > len(words) { end = len(words) }
ChunkEnd(i, c, L) == IF i + c > L THEN L ELSE i + c

\* the loop of chunkText over the words of the text, from word i on (0-based):
\* each chunk is the slice words[i:end], kept as [from |-> i, to |-> end]
RECURSIVE ChunkLoop(_, _, _, _, _)
ChunkLoop(L, c, o, i, acc) ==
    IF ~(i < L) THEN acc
    ELSE LET end == ChunkEnd(i, c, L)
             next == i + ChunkStep(c, o)
             out == Append(acc, [from |-> i, to |-> end])
         IN  IF next >= L THEN out ELSE ChunkLoop(L, c, o, next, out)

\* chunkText(text) for a text of chars characters and L words
chunkText(chars, L, c, o) ==
    IF chars = 0 \/ chars <= c
    THEN <<[from |-> 0, to |-> L]>>
    ELSE ChunkLoop(L, c, o, 0, <<>>)

\* NewDocumentProcessor(embedder, chunkSize, chunkOverlap) and a text that
\* has not been split yet
ChunkStart(c, o, chars, L) ==
    /\ chunkSize = c
    /\ chunkOverlap = o
    /\ textChars = chars
    /\ textWords = L
    /\ textChunks = <<>>
    /\ chunkPc = "text"

InitChunk ==
    \E c \in 1..MaxChunkSize, L \in 0..MaxWords :
        \E o \in 0..(c - 1), pad \in 0..MaxPad : ChunkStart(c, o, MinChars(L) + pad, L)

\* chunks := p.chunkText(msg.Content)
ChunkText ==
    /\ chunkPc = "text"
    /\ textChunks' = chunkText(textChars, textWords, chunkSize, chunkOverlap)
    /\ chunkPc' = "chunked"
    /\ UNCHANGED <<chunkSize, chunkOverlap, textChars, textWords>>
    /\ UNCHANGED chunkOthers

(***************************************************************************)
(* Document ids: generateDocumentID, with SHA-256 over one 512-bit block   *)
(* computed on 32-bit words kept as <<high 16 bits, low 16 bits>>          *)
(***************************************************************************)
\* sha256.Sum256(data) for data of at most 55 bytes, which make one block:
\* the 8 words of the digest
Sum256(bytes) ==
    LET
        \* 2^16
        Half == 65536

        RECURSIVE Pow2(_)
        Pow2(n) == IF n = 0 THEN 1 ELSE 2 * Pow2(n - 1)

        \* bitwise and of two 16-bit numbers
        RECURSIVE And16(_, _)
        And16(a, b) ==
            IF a = 0 \/ b = 0 THEN 0
            ELSE (a % 2) * (b % 2) + 2 * And16(a \div 2, b \div 2)

        \* bitwise exclusive or of two 16-bit numbers
        Xor16(a, b) == a + b - 2 * And16(a, b)

        WAnd(x, y) == <<And16(x[1], y[1]), And16(x[2], y[2])>>
        WXor(x, y) == <<Xor16(x[1], y[1]), Xor16(x[2], y[2])>>
        WNot(x) == <<Half - 1 - x[1], Half - 1 - x[2]>>

        \* addition modulo 2^32
        WAdd(x, y) ==
            LET lo == x[2] + y[2]
            IN  <<(x[1] + y[1] + lo \div Half) % Half, lo % Half>>

        \* rotation to the right by n bits, 0 <= n < 32
        RotR(x, n) ==
            LET hi == IF n >= 16 THEN x[2] ELSE x[1]
                lo == IF n >= 16 THEN x[1] ELSE x[2]
                k == n % 16
                p == Pow2(k)
                q == Pow2(16 - k)
            IN  IF k = 0 THEN <<hi, lo>>
                ELSE <<hi \div p + (lo % p) * q, lo \div p + (hi % p) * q>>

        \* shift to the right by n bits, 0 < n < 16
        ShR(x, n) ==
            LET p == Pow2(n)
                q == Pow2(16 - n)
            IN  <<x[1] \div p, x[2] \div p + (x[1] % p) * q>>

        BigSigma0(x) == WXor(WXor(RotR(x, 2), RotR(x, 13)), RotR(x, 22))
        BigSigma1(x) == WXor(WXor(RotR(x, 6), RotR(x, 11)), RotR(x, 25))
        SmallSigma0(x) == WXor(WXor(RotR(x, 7), RotR(x, 18)), ShR(x, 3))
        SmallSigma1(x) == WXor(WXor(RotR(x, 17), RotR(x, 19)), ShR(x, 10))
        Ch(x, y, z) == WXor(WAnd(x, y), WAnd(WNot(x), z))
        Maj(x, y, z) == WXor(WXor(WAnd(x, y), WAnd(x, z)), WAnd(y, z))

        \* the round constants of SHA-256
        ShaK ==
            <<<<17034, 12184>>, <<28983, 17553>>, <<46528, 64463>>, <<59829, 56229>>,
              <<14678, 49755>>, <<23025, 4593>>, <<37439, 33444>>, <<43804, 24277>>,
              <<55303, 43672>>, <<4739, 23297>>, <<9265, 34238>>, <<21772, 32195>>,
              <<29374, 23924>>, <<32990, 45566>>, <<39900, 1703>>, <<49563, 61812>>,
              <<58523, 27073>>, <<61374, 18310>>, <<4033, 40390>>, <<9228, 41420>>,
              <<11753, 11375>>, <<19060, 33962>>, <<23728, 43484>>, <<30457, 35034>>,
              <<38974, 20818>>, <<43057, 50797>>, <<45059, 10184>>, <<48985, 32711>>,
              <<50912, 3059>>, <<54695, 37191>>, <<1738, 25425>>, <<5161, 10599>>,
              <<10167, 2693>>, <<11803, 8504>>, <<19756, 28156>>, <<21304, 3347>>,
              <<25866, 29524>>, <<30314, 2747>>, <<33218, 51502>>, <<37490, 11397>>,
              <<41663, 59553>>, <<43034, 26187>>, <<49739, 35696>>, <<51052, 20899>>,
              <<53650, 59417>>, <<54937, 1572>>, <<62478, 13701>>, <<4202, 41072>>,
              <<6564, 49430>>, <<7735, 27656>>, <<10056, 30540>>, <<13488, 48309>>,
              <<14620, 3251>>, <<20184, 43594>>, <<23452, 51791>>, <<26670, 28659>>,
              <<29839, 33518>>, <<30885, 25455>>, <<33992, 30740>>, <<36039, 520>>,
              <<37054, 65530>>, <<42064, 27883>>, <<48889, 41975>>, <<50801, 30962>>>>

        \* the initial hash value of SHA-256
        ShaH0 ==
            <<<<27145, 58983>>, <<47975, 44677>>, <<15470, 62322>>, <<42319, 62778>>,
              <<20750, 21119>>, <<39685, 26764>>, <<8067, 55723>>, <<23520, 52505>>>>

        \* the padded block of a message of at most 55 bytes, as 64 bytes
        ShaPad(data) ==
            [i \in 1..64 |->
                IF i <= Len(data) THEN data[i]
                ELSE IF i = Len(data) + 1 THEN 128
                ELSE IF i = 63 THEN (8 * Len(data)) \div 256
                ELSE IF i = 64 THEN (8 * Len(data)) % 256
                ELSE 0]

        \* the 16 big-endian words of a block
        ShaWords(block) ==
            [t \in 1..16 |-> <<block[4 * t - 3] * 256 + block[4 * t - 2],
                               block[4 * t - 1] * 256 + block[4 * t]>>]

        \* the message schedule, extended from t words to 64
        RECURSIVE ShaSchedule(_)
        ShaSchedule(w) ==
            IF Len(w) = 64 THEN w
            ELSE LET t == Len(w) + 1
                 IN  ShaSchedule(Append(w, WAdd(WAdd(SmallSigma1(w[t - 2]), w[t - 7]),
                                                WAdd(SmallSigma0(w[t - 15]), w[t - 16]))))

        \* one round of the compression function on the working variables s
        ShaRound(s, w, t) ==
            LET t1 == WAdd(WAdd(WAdd(s[8], BigSigma1(s[5])), WAdd(Ch(s[5], s[6], s[7]), ShaK[t])),
                           w[t])
                t2 == WAdd(BigSigma0(s[1]), Maj(s[1], s[2], s[3]))
            IN  <<WAdd(t1, t2), s[1], s[2], s[3], WAdd(s[4], t1), s[5], s[6], s[7]>>

        \* rounds t..last, each applied to the value the one before it produced
        RECURSIVE ShaRounds(_, _, _, _)
        ShaRounds(s, w, t, last) ==
            IF t > last THEN s
            ELSE CHOOSE r \in {ShaRounds(v, w, t + 1, last) : v \in {ShaRound(s, w, t)}} : TRUE

        \* the 64 rounds, eight at a time
        RECURSIVE ShaBlocks(_, _, _)
        ShaBlocks(s, w, t) ==
            IF t > 64 THEN s
            ELSE CHOOSE r \in {ShaBlocks(v, w, t + 8) : v \in {ShaRounds(s, w, t, t + 7)}} : TRUE

        schedule == ShaSchedule([t \in 1..16 |-> ShaWords(ShaPad(bytes))[t]])
        final == ShaBlocks(ShaH0, schedule, 1)
    IN  [j \in 1..8 |-> WAdd(ShaH0[j], final[j])]

\* a derivation that leaves the chunk index out of the hashed data
DocumentDataNoIndex(messageID, chunkIndex) == messageID

\* data := fmt.Sprintf("%s-%d", messageID, chunkIndex)
DocumentData(messageID, chunkIndex) == messageID \o <<45>> \o Decimal(chunkIndex)

\* fmt.Sprintf("%x", hash[:8]) of the SHA-256 of the data: 16 hexadecimal digits
generateDocumentID(messageID, chunkIndex) ==
    LET hash == Sum256(DocumentData(messageID, chunkIndex))
        HexDigit(d) == IF d < 10 THEN 48 + d ELSE 87 + d
        HexByte(b) == <<HexDigit(b \div 16), HexDigit(b % 16)>>
        HexHalf(h) == HexByte(h \div 256) \o HexByte(h % 256)
    IN  HexHalf(hash[1][1]) \o HexHalf(hash[1][2]) \o HexHalf(hash[2][1]) \o HexHalf(hash[2][2])

\* the messages of the export: message m has the id "m" ("1", "2", ...)
DocMessages == 1..MaxMsgId

\* the chunk indices a message of at most MaxDocChunks chunks has
DocIndices == 0..(MaxDocChunks - 1)

\* generateDocumentID over the messages and chunk indices of the model
DocumentIDs ==
    [m \in DocMessages |-> [i \in DocIndices |-> generateDocumentID(Decimal(m), i)]]

\* before the first ingestion run: no id was generated
IdStart ==
    /\ docRun = 0
    /\ docIds = [m \in DocMessages |-> [i \in DocIndices |-> {}]]
    /\ docOut = <<>>

\* ProcessMessage on message m, whose content makes n chunks: one id per chunk
ProcessMessage(m, n) ==
    /\ docOut' = [i \in 1..n |-> DocumentIDs[m][i - 1]]
    /\ docIds' = [docIds EXCEPT ![m] =
                     [i \in DocIndices |->
                         IF i < n THEN @[i] \cup {[later |-> docRun > 0, id |-> DocumentIDs[m][i]]}
                         ELSE @[i]]]
    /\ UNCHANGED docRun
    /\ UNCHANGED idOthers

\* a later ingestion run, by a new process
NextRun ==
    /\ docRun < MaxRuns
    /\ docRun' = docRun + 1
    /\ docOut' = <<>>
    /\ UNCHANGED docIds
    /\ UNCHANGED idOthers


(***************************************************************************)
(* CSV parser: one ParseWithCallbacks call                                 *)
(***************************************************************************)
\* what becomes of a record: it is accepted, reader.Read fails on it,
\* parseRecord fails on it, or validateMessage fails on it
CsvKinds == {"ok", "unreadable", "unparsable", "invalid"}

CsvFiles == UNION {[1..n -> CsvKinds] : n \in 0..MaxCsvRecords}

\* NewCSVParser(config) and the arguments of the call
CsvStart(config, file) ==
    /\ csvConfig = config
    /\ csvFile = file
    /\ csvPc = "header"
    /\ csvParser = ZeroCounts
    /\ csvLoop = [next |-> 1, batch |-> <<>>, batchNum |-> 0]
    /\ csvBatches = <<>>
    /\ csvReports = <<>>

InitCsv ==
    \E bs \in 1..MaxBatch, skip \in BOOLEAN, validate \in BOOLEAN, file \in CsvFiles :
        CsvStart([batchSize |-> bs, skipErrors |-> skip, validateRecords |-> validate],
                 file)

\* a record reaches batch = append(batch, msg): parseRecord succeeds and,
\* if ValidateRecords is set, so does validateMessage
CsvAccepted(kind, config) ==
    kind = "ok" \/ (kind = "invalid" /\ ~config.validateRecords)

\* recordError: p.errorCount++
recordErrorTwice(p) == [p EXCEPT !.errors = @ + 2]

recordError(p) == [p EXCEPT !.errors = @ + 1]

\* len(batch) >= p.config.BatchSize
BatchOverfull(batch, size) == Len(batch) > size

BatchFull(batch, size) == Len(batch) >= size

\* progressCallback(p.processedRecords, p.totalRecords, p.errorCount)
CsvReport(reports, p) == Append(reports, p)

\* the header row is read and the required columns are looked up; the
\* counters are reset
CsvHeader(ok) ==
    /\ csvPc = "header"
    /\ csvPc' = IF ok THEN "read" ELSE "failed_header"
    /\ csvParser' = IF ok THEN ZeroCounts ELSE csvParser
    /\ UNCHANGED <<csvConfig, csvFile, csvLoop, csvBatches, csvReports>>
    /\ UNCHANGED csvOthers

\* one iteration of the read loop on a record; cbOk: the batch callback,
\* if this iteration calls it, returns nil
CsvRecord(cbOk) ==
    /\ csvPc = "read"
    /\ csvLoop.next <= Len(csvFile)
    /\ LET kind == csvFile[csvLoop.next]
           counted == [csvParser EXCEPT !.total = @ + 1]
           skipped == [csvLoop EXCEPT !.next = @ + 1]
       IN  IF ~CsvAccepted(kind, csvConfig)
           THEN \* reader.Read, parseRecord or validateMessage returned an error
                /\ IF csvConfig.skipErrors
                   THEN /\ csvParser' = recordError(counted)
                        /\ csvLoop' = skipped
                        /\ csvPc' = "read"
                   ELSE /\ csvParser' = IF kind = "unreadable" THEN csvParser ELSE counted
                        /\ csvLoop' = csvLoop
                        /\ csvPc' = "failed_record"
                /\ UNCHANGED <<csvBatches, csvReports>>
           ELSE LET batch == Append(csvLoop.batch, csvLoop.next)
                    p == [counted EXCEPT !.processed = @ + 1]
                    full == BatchFull(batch, csvConfig.batchSize)
                IN  /\ csvParser' = p
                    /\ csvBatches' = IF full
                                     THEN Append(csvBatches, [records |-> batch,
                                                              num |-> csvLoop.batchNum])
                                     ELSE csvBatches
                    /\ IF full /\ ~cbOk
                       THEN \* batch callback error
                            /\ csvPc' = "failed_callback"
                            /\ csvLoop' = [csvLoop EXCEPT !.batch = batch]
                            /\ UNCHANGED csvReports
                       ELSE /\ csvPc' = "read"
                            /\ csvLoop' = IF full
                                          THEN [next |-> csvLoop.next + 1, batch |-> <<>>,
                                                batchNum |-> csvLoop.batchNum + 1]
                                          ELSE [skipped EXCEPT !.batch = batch]
                            /\ csvReports' = IF p.total % ReportEvery = 0
                                             THEN CsvReport(csvReports, p)
                                             ELSE csvReports
    /\ UNCHANGED <<csvConfig, csvFile>>
    /\ UNCHANGED csvOthers

\* reader.Read returned io.EOF: the final batch, then the final progress report
CsvEOF(cbOk) ==
    /\ csvPc = "read"
    /\ csvLoop.next > Len(csvFile)
    /\ csvBatches' = IF csvLoop.batch # <<>>
                     THEN Append(csvBatches, [records |-> csvLoop.batch,
                                              num |-> csvLoop.batchNum])
                     ELSE csvBatches
    /\ IF csvLoop.batch # <<>> /\ ~cbOk
       THEN /\ csvPc' = "failed_callback"
            /\ UNCHANGED csvReports
       ELSE /\ csvPc' = "done"
            /\ csvReports' = CsvReport(csvReports, csvParser)
    /\ UNCHANGED <<csvConfig, csvFile, csvParser, csvLoop>>
    /\ UNCHANGED csvOthers

(***************************************************************************)
(* RAG retriever: RetrieveContext and applyDiversity                       *)
(* The query has one term, so scores are integers on the scale 10; every   *)
(* document has a content of one token.                                    *)
(***************************************************************************)
\* RAGConfig.DiversityFactor in tenths: off, the default, a half, all
RetFactors == {0, 3, 5, 10}

\* RAGConfig.MinScore in tenths: the default, and one above the base score
RetMinScores == {5, 8}

\* RAGConfig.MaxTokens: room for two documents, or for every candidate
RetBudgets == {2, 2 * MaxDocsCfg}

\* int(float64(MaxDocuments) * (1 - DiversityFactor)): the float64 product
\* truncated towards zero; for the factors and limits of the model the
\* float64 result has the integer part of the exact product
TopCount(maxDocuments, factor) == (maxDocuments * (10 - factor)) \div 10

\* seen[source]: the results kept so far that come from the source
Seen(diverse, source) ==
    Cardinality({i \in 1..Len(diverse) : diverse[i].source = source})

\* a diversity pass without the per-source limit
AdmitsAnySource(diverse, result) == TRUE

\* seen[source] < 2
Admits(diverse, result) == Seen(diverse, result.source) < 2

\* the second loop of applyDiversity, over results[i..]
RECURSIVE DiverseLoop(_, _, _, _)
DiverseLoop(results, i, diverse, maxDocuments) ==
    IF i > Len(results) \/ Len(diverse) >= maxDocuments THEN diverse
    ELSE DiverseLoop(results, i + 1,
                     IF Admits(diverse, results[i]) THEN Append(diverse, results[i])
                     ELSE diverse,
                     maxDocuments)

\* r.applyDiversity(results)
applyDiversity(results, maxDocuments, factor) ==
    IF Len(results) <= maxDocuments THEN results
    ELSE LET topCount == TopCount(maxDocuments, factor)
             taken == IF topCount < Len(results) THEN topCount ELSE Len(results)
         IN  DiverseLoop(results, topCount + 1, SubSeq(results, 1, taken), maxDocuments)

\* r.processResults(documents, query) with the documents carried along
RankedResults(documents, minScore) ==
    LET ranked == processResults(documents, 1, minScore)
    IN  [i \in 1..Len(ranked) |->
            [id |-> ranked[i].id, source |-> documents[ranked[i].id].source,
             Score |-> ranked[i].Score, len |-> 4, dot |-> -1,
             tokens |-> ragEstimateTokens(4), cut |-> FALSE]]

\* NewRAGRetriever(vectorClient, embedder, config)
RetStart(config) ==
    /\ retConfig = config
    /\ retDocuments = <<>>
    /\ retResults = <<>>
    /\ retDiverse = <<>>
    /\ retContext = EmptyContext
    /\ retPc = "search"

InitRet ==
    \E m \in 1..MaxDocsCfg, f \in RetFactors, s \in RetMinScores, t \in RetBudgets :
        RetStart([maxDocuments |-> m, diversity |-> f, minScore |-> s, maxTokens |-> t])

\* the vector search, asked for Limit = 2 * MaxDocuments documents, returns
\* one more
RetSearchHit(source, match) ==
    /\ retPc = "search"
    /\ Len(retDocuments) < retConfig.maxDocuments * 2
    /\ retDocuments' = Append(retDocuments,
                              [id |-> Len(retDocuments) + 1, source |-> source,
                               match |-> match, author |-> FALSE])
    /\ UNCHANGED <<retConfig, retResults, retDiverse, retContext, retPc>>
    /\ UNCHANGED retOthers

\* RetrieveContext(ctx, query): ok is FALSE when GenerateEmbedding or
\* SearchWithOptions returns an error
RetrieveContextCall(ok) ==
    /\ retPc = "search"
    /\ IF ~ok
       THEN /\ retPc' = "failed"
            /\ UNCHANGED <<retResults, retDiverse, retContext>>
       ELSE LET results == RankedResults(retDocuments, retConfig.minScore)
                diverse == IF retConfig.diversity > 0
                           THEN applyDiversity(results, retConfig.maxDocuments,
                                               retConfig.diversity)
                           ELSE results
            IN  /\ retResults' = results
                /\ retDiverse' = diverse
                /\ retContext' = buildContext(diverse, retConfig.maxTokens)
                /\ retPc' = "returned"
    /\ UNCHANGED <<retConfig, retDocuments>>
    /\ UNCHANGED retOthers

(***************************************************************************)
(* Document processor: ProcessMessage with its embedder                    *)
(***************************************************************************)
\* the chunks ProcessMessage embeds, each by whether it is the empty string:
\* a text that is not split is its own chunk, a chunk of the loop is the
\* join of at least one word, and when chunkText returns no chunk the
\* content itself is the only chunk
ChunkTexts(msg, config) ==
    LET chunks == chunkText(msg.chars, msg.words, config.chunkSize, config.chunkOverlap)
    IN  IF chunks = <<>> THEN <<msg.chars = 0>>
        ELSE IF msg.chars = 0 \/ msg.chars <= config.chunkSize
             THEN <<msg.chars = 0>>
             ELSE [i \in 1..Len(chunks) |-> chunks[i].to = chunks[i].from]

\* OllamaEmbedder.GenerateEmbedding(ctx, text) returns an embedding: never
\* for the empty text, and for another text when the gateway answers
GenerateEmbedding(empty, gatewayOk) == ~empty /\ gatewayOk

\* NewDocumentProcessor(embedder, chunkSize, chunkOverlap) and a message
PmStart(config, msg) ==
    /\ pmConfig = config
    /\ pmMsg = msg
    /\ pmChunks = <<>>
    /\ pmIdx = 0
    /\ pmDocs = 0
    /\ pmResult = "none"
    /\ pmPc = "call"

InitPm ==
    \E c \in 1..MaxChunkSize, L \in 0..MaxWords, files \in BOOLEAN :
        \E o \in 0..(c - 1), pad \in 0..MaxPad :
            PmStart([chunkSize |-> c, chunkOverlap |-> o],
                    [chars |-> MinChars(L) + pad, words |-> L, files |-> files])

\* ProcessMessage up to its loop: the empty message without attachment is
\* skipped, another message is chunked
PmCall ==
    /\ pmPc = "call"
    /\ IF pmMsg.chars = 0 /\ ~pmMsg.files
       THEN /\ pmPc' = "returned"
            /\ pmResult' = "nil"
            /\ UNCHANGED <<pmChunks, pmIdx>>
       ELSE /\ pmPc' = "embed"
            /\ pmChunks' = ChunkTexts(pmMsg, pmConfig)
            /\ pmIdx' = 1
            /\ UNCHANGED pmResult
    /\ UNCHANGED <<pmConfig, pmMsg, pmDocs>>
    /\ UNCHANGED pmOthers

\* one iteration of "for i, chunk := range chunks", or the return after it
PmEmbed(gatewayOk) ==
    /\ pmPc = "embed"
    /\ IF pmIdx > Len(pmChunks)
       THEN /\ pmPc' = "returned"
            /\ pmResult' = "documents"
            /\ UNCHANGED <<pmIdx, pmDocs>>
       ELSE IF GenerateEmbedding(pmChunks[pmIdx], gatewayOk)
            THEN /\ pmDocs' = pmDocs + 1
                 /\ pmIdx' = pmIdx + 1
                 /\ UNCHANGED <<pmPc, pmResult>>
            ELSE \* return nil, fmt.Errorf("failed to generate embedding: %w", err)
                 /\ pmPc' = "returned"
                 /\ pmResult' = "error"
                 /\ pmDocs' = 0
                 /\ UNCHANGED pmIdx
    /\ UNCHANGED <<pmConfig, pmMsg, pmChunks>>
    /\ UNCHANGED pmOthers

DoAddMessage ==
    \E role \in Roles, tok \in 0..MaxTok, len \in {0, 4, 4 * MaxTok} :
        AddMessage(role, tok, len)

DoGetContextMessages ==
    \E additionalTokens \in 0..MaxBudget : GetContextMessages(additionalTokens)


(***************************************************************************)
(* Specifications                                                          *)
(***************************************************************************)
\* a conversation that no action touches
ConvQuiet ==
    /\ cfgMaxMessages = 1
    /\ convMaxTokens = 1
    /\ convMessages = <<>>
    /\ convTotalTokens = 0
    /\ convAdds = 0
    /\ ctxStatus = "none"
    /\ ctxReserved = 0
    /\ ctxOut = <<>>

\* a hub and an orchestrator that no action touches
HubQuiet == InitHub /\ InitChat /\ streamingEnabled

\* an ingestion run that no action touches
IngestQuiet == IngestStart(1, 1, FALSE)

\* a retriever that no action touches
RagQuiet == PackStart(1)

\* pure functions that no action applies
\* a document processor that no action touches
ChunkQuiet == ChunkStart(1, 0, 0, 0)

\* document ids that no action generates
IdQuiet == IdStart

\* a ranking that no action runs
RankQuiet == RankStart(5, 1)

\* a citation extraction that no action runs
CiteQuiet == CiteStart(0)

PureQuiet == RagQuiet /\ ChunkQuiet /\ IdQuiet /\ RankQuiet /\ CiteQuiet

\* concurrent callers that never call
\* a parser that no call uses
ParQuiet == ParStart([c \in Calls |-> <<>>])

\* a parser call that never starts
CsvQuiet == CsvStart([batchSize |-> 1, skipErrors |-> TRUE, validateRecords |-> TRUE], <<>>)

\* a retriever that is never asked
RetQuiet == RetStart([maxDocuments |-> 1, diversity |-> 0, minScore |-> 5, maxTokens |-> 2])

\* a document processor that is given no message
PmQuiet == PmStart([chunkSize |-> 1, chunkOverlap |-> 0],
                   [chars |-> 0, words |-> 0, files |-> FALSE])

LateQuiet == CsvQuiet /\ RetQuiet /\ PmQuiet

ConcQuiet == InitMgr /\ InitReg /\ DirStart(0) /\ ParQuiet /\ LateQuiet

FnQuiet == PureQuiet /\ ConcQuiet

\* a server and an ingestion run that no action touches
ProgQuiet == ConvQuiet /\ HubQuiet /\ IngestQuiet /\ ConcQuiet

\* a server, an ingestion run and pure functions that no action touches
RestQuiet == ConvQuiet /\ HubQuiet /\ IngestQuiet /\ PureQuiet

NextConv ==
    \/ DoAddMessage
    \/ DoGetContextMessages

InitSpecConv == InitConv /\ HubQuiet /\ IngestQuiet /\ FnQuiet

SpecConv == InitSpecConv /\ [][NextConv]_vars

NextHub ==
    \/ \E c \in Conns, id \in Ids : ServeWS(c, id)
    \/ \E c \in Conns : HubRegister(c)
    \/ \E c \in Conns : HubUnregister(c)
    \/ HubShutdown
    \/ HubBroadcast
    \/ \E c \in Conns : ReadPing(c)
    \/ \E c \in Conns : PongSend(c)
    \/ \E c \in Conns : ReadFail(c)
    \/ \E c \in Conns : WriterSend(c)
    \/ \E c \in Conns : WriterExit(c)
    \/ \E id \in Ids : SendMessageLookup(id)
    \/ SendMessageSend

InitSpecHub == ConvQuiet /\ InitHub /\ InitChat /\ streamingEnabled /\ IngestQuiet /\ FnQuiet

SpecHub == InitSpecHub /\ [][NextHub]_vars

\* the Go scheduler runs every goroutine that can take a step: the hub loop
\* receives from its register and unregister channels while it runs, and
\* writePump takes the messages of its channel and returns once it finds the
\* channel closed and drained or a write fails on the closed connection;
\* what peers and callers do (read failures, broadcasts, shutdown) is not
\* forced
HubFairness ==
    \A c \in Conns :
        /\ WF_vars(HubRegister(c))
        /\ WF_vars(HubUnregister(c))
        /\ WF_vars(WriterSend(c))
        /\ WF_vars(WriterExit(c) /\ (connPc[c] = "closed" \/
                                     (sendClosed[c] /\ sendQ[c] = <<>>)))

SpecHubFair == InitSpecHub /\ [][NextHub]_vars /\ HubFairness

\* the chat orchestrator serving the requests of one connection, with the
\* hub as the server runs it: Run(context.Background()) is never cancelled
\* and nothing calls BroadcastMessage or SendMessage
ChatConn == 1

NextChat ==
    \/ \E id \in Ids : ServeWS(ChatConn, id)
    \/ HubRegister(ChatConn)
    \/ HubUnregister(ChatConn)
    \/ ReadFail(ChatConn)
    \/ WriterSend(ChatConn)
    \/ WriterExit(ChatConn)
    \/ \E r \in Reqs : ReadChat(ChatConn, r)
    \/ \E r \in Reqs, valid \in BOOLEAN : HandleChatMessage(r, valid)
    \/ \E r \in Reqs : CleanupOldConversations(r)
    \/ \E r \in Reqs : AddMessageLookup(r)
    \/ \E r \in Reqs : AddMessageAppend(r)
    \/ \E r \in Reqs, outcome \in RagOutcomes, chunks \in 0..MaxChunks, cite \in BOOLEAN :
          RetrieveContext(r, outcome, chunks, cite)
    \/ \E r \in Reqs : RequestSend(r)
    \/ \E r \in Reqs : StreamProducerFail(r)
    \/ \E r \in Reqs : StreamProducerEnd(r)
    \/ \E r \in Reqs, nonEmpty \in BOOLEAN, done \in BOOLEAN :
          StreamChunk(r, nonEmpty, done)
    \/ \E r \in Reqs : StreamLoopReturn(r)
    \/ \E r \in Reqs : StreamError(r)
    \/ \E r \in Reqs, ok \in BOOLEAN : ChatReturns(r, ok)
    \/ \E r \in Reqs : PersistAssistant(r)

InitSpecChat == ConvQuiet /\ InitHub /\ InitChat /\ IngestQuiet /\ FnQuiet

SpecChat == InitSpecChat /\ [][NextChat]_vars

\* one IngestFile run: the parser, the worker pool and the caller's context
NextIngest ==
    \/ IngestCancel
    \/ \E ok \in BOOLEAN : ParserOpen(ok)
    \/ \E valid \in BOOLEAN, msg \in Messages : ParserRecord(valid, msg)
    \/ ParserEOF
    \/ ParserSend
    \/ ParserSendCancelled
    \/ IngestCloseChan
    \/ IngestReturn
    \/ \E w \in Workers : WorkerRecv(w)
    \/ \E w \in Workers, procOk \in BOOLEAN, ndocs \in 0..MaxDocs : WorkerMessage(w, procOk, ndocs)
    \/ \E w \in Workers, ok \in BOOLEAN : WorkerStore(w, ok)
    \/ \E w \in Workers : WorkerLock(w)
    \/ \E w \in Workers : WorkerWrite(w)

InitSpecIngest == ConvQuiet /\ HubQuiet /\ InitIngest /\ FnQuiet

SpecIngest == InitSpecIngest /\ [][NextIngest]_vars

\* the Go scheduler runs the parser and every worker that can take a step;
\* nothing forces the caller to cancel its context
SpecIngestFair ==
    InitSpecIngest /\ [][NextIngest]_vars
    /\ WF_vars(NextIngest /\ ingCtxDone' = ingCtxDone)

\* one IngestFile run of a service configured with MaxConcurrency = 1: the
\* batches are processed one after the other by a single worker
InitSpecBatch ==
    /\ ConvQuiet /\ HubQuiet /\ FnQuiet
    /\ \E bs \in 1..MaxBatch, skip \in BOOLEAN : IngestStart(bs, 1, skip)

SpecBatch == InitSpecBatch /\ [][NextIngest]_vars

\* the same single-worker run with messages of up to MaxBatchDocs documents
NextStore ==
    \/ IngestCancel
    \/ \E ok \in BOOLEAN : ParserOpen(ok)
    \/ \E valid \in BOOLEAN, msg \in Messages : ParserRecord(valid, msg)
    \/ ParserEOF
    \/ ParserSend
    \/ ParserSendCancelled
    \/ IngestCloseChan
    \/ IngestReturn
    \/ \E w \in Workers : WorkerRecv(w)
    \/ \E w \in Workers, procOk \in BOOLEAN, ndocs \in 0..MaxBatchDocs :
          WorkerMessage(w, procOk, ndocs)
    \/ \E w \in Workers, ok \in BOOLEAN : WorkerStore(w, ok)
    \/ \E w \in Workers : WorkerLock(w)
    \/ \E w \in Workers : WorkerWrite(w)

SpecStore == InitSpecBatch /\ [][NextStore]_vars

\* buildContext applied to every ranked list of at most MaxCands candidates
NextPack ==
    \/ \E len \in PackLens, dot \in PackDots : PackCandidate(len, dot)
    \/ BuildContext

InitSpecPack == ProgQuiet /\ InitPack /\ ChunkQuiet /\ IdQuiet /\ RankQuiet /\ CiteQuiet

SpecPack == InitSpecPack /\ [][NextPack]_vars

\* chunkText applied to every text of at most MaxWords words
NextChunk == ChunkText

InitSpecChunk == ProgQuiet /\ RagQuiet /\ InitChunk /\ IdQuiet /\ RankQuiet /\ CiteQuiet

SpecChunk == InitSpecChunk /\ [][NextChunk]_vars

\* ProcessMessage on every message, over MaxRuns + 1 ingestion runs
NextId ==
    \/ \E m \in DocMessages, n \in 1..MaxDocChunks : ProcessMessage(m, n)
    \/ NextRun

InitSpecId == ProgQuiet /\ RagQuiet /\ ChunkQuiet /\ IdStart /\ RankQuiet /\ CiteQuiet

SpecId == InitSpecId /\ [][NextId]_vars

\* processResults applied to every search result of at most MaxHits documents
NextRank ==
    \/ \E match \in 0..MaxTerms, author \in BOOLEAN : SearchHit(match, author)
    \/ ProcessResults

InitSpecRank == ProgQuiet /\ RagQuiet /\ ChunkQuiet /\ IdQuiet /\ InitRank /\ CiteQuiet

SpecRank == InitSpecRank /\ [][NextRank]_vars

\* ExtractCitationsFromResponse applied to every response of at most
\* MaxPieces pieces
NextCite ==
    \/ \E piece \in Pieces : ResponsePiece(piece)
    \/ ExtractCitations

InitSpecCite == ProgQuiet /\ RagQuiet /\ ChunkQuiet /\ IdQuiet /\ RankQuiet /\ InitCite

SpecCite == InitSpecCite /\ [][NextCite]_vars

(***************************************************************************)
(* Claims about the conversation manager                                   *)
(***************************************************************************)
\* C1: after any sequence of AddMessage calls the conversation's running
\* token total is at most its MaxContextTokens, a single oversized message
\* included.
C1_TokenTotalWithinBudget ==
    convAdds > 0 => convTotalTokens <= convMaxTokens

\* C10: whenever GetContextMessages succeeds, the token estimates of the
\* returned messages, the leading system message included, sum to at most
\* MaxContextTokens - reservedTokens.
C10_ContextWithinBudget ==
    ctxStatus = "ok" => SumTokens(ctxOut) <= convMaxTokens - ctxReserved

\* tasks calling AddMessage, GetContextMessages and ExportConversation
\* on one conversation, and an ImportConversation of the exported copy
NextMgr ==
    \/ \E t \in Tasks, tok \in 1..MaxMsgTok : TaskLookup(t, tok)
    \/ \E t \in Tasks : TaskLock(t)
    \/ \E t \in Tasks : TaskAppend(t)
    \/ \E t \in Tasks : TaskTrim(t)
    \/ \E t \in Tasks : TaskRead(t)
    \/ \E t \in Tasks : ExportFields(t)
    \/ \E t \in Tasks : ExportCopy(t)
    \/ ImportConversation

InitSpecMgr == RestQuiet /\ InitMgr /\ InitReg /\ DirStart(0) /\ ParQuiet /\ LateQuiet

SpecMgr == InitSpecMgr /\ [][NextMgr]_vars

\* the hub loop, a SendMessage caller, a GetStats caller, a chat request
\* and a maintenance task, each accessing the registries
NextReg ==
    \/ \E op \in RegOps : RegBegin(op)
    \/ \E t \in RegTasks : RegEnd(t)

InitSpecReg == RestQuiet /\ InitMgr /\ InitReg /\ DirStart(0) /\ ParQuiet /\ LateQuiet

SpecReg == InitSpecReg /\ [][NextReg]_vars

\* one IngestDirectory call over the files of a directory
NextDir ==
    \/ \E run \in FileRuns : DirIngestFile(run)
    \/ DirReturn

InitSpecDir == RestQuiet /\ InitMgr /\ InitReg /\ InitDir /\ ParQuiet /\ LateQuiet

SpecDir == InitSpecDir /\ [][NextDir]_vars

\* ParseWithCallbacks calls on the parser of one ingestion Service
NextPar ==
    \/ \E c \in Calls : ParReset(c)
    \/ \E c \in Calls : ParRead(c)
    \/ \E c \in Calls : ParLoad(c)
    \/ \E c \in Calls : ParStore(c)
    \/ \E c \in Calls : ParReport(c)

InitSpecPar == RestQuiet /\ InitMgr /\ InitReg /\ DirStart(0) /\ InitPar /\ LateQuiet

SpecPar == InitSpecPar /\ [][NextPar]_vars

\* the early subsystems, untouched
EarlyQuiet == RestQuiet /\ InitMgr /\ InitReg /\ DirStart(0) /\ ParQuiet

\* one ParseWithCallbacks call with its two callbacks
NextCsv ==
    \/ \E ok \in BOOLEAN : CsvHeader(ok)
    \/ \E cbOk \in BOOLEAN : CsvRecord(cbOk)
    \/ \E cbOk \in BOOLEAN : CsvEOF(cbOk)

InitSpecCsv == EarlyQuiet /\ InitCsv /\ RetQuiet /\ PmQuiet

SpecCsv == InitSpecCsv /\ [][NextCsv]_vars

\* one RetrieveContext call on the documents the vector search returns
NextRet ==
    \/ \E source \in 1..MaxSources, match \in 0..1 : RetSearchHit(source, match)
    \/ \E ok \in BOOLEAN : RetrieveContextCall(ok)

InitSpecRet == EarlyQuiet /\ CsvQuiet /\ InitRet /\ PmQuiet

SpecRet == InitSpecRet /\ [][NextRet]_vars

\* one ProcessMessage call with an embedder that may fail
NextPm ==
    \/ PmCall
    \/ \E gatewayOk \in BOOLEAN : PmEmbed(gatewayOk)

InitSpecPm == EarlyQuiet /\ CsvQuiet /\ RetQuiet /\ InitPm

SpecPm == InitSpecPm /\ [][NextPm]_vars

(***************************************************************************)
(* Claims about the realtime hub and the chat orchestrator                 *)
(***************************************************************************)
\* a request that reached response generation and will take no further
\* step: its task returned, or the process died while it was in
\* streamResponse or, with the model's response in hand, in generateResponse
\* (a single-shot request whose model call failed has no response to
\* persist and is left out)
ReqFinished(r) ==
    \/ reqPc[r] = "done"
    \/ ~Alive /\ reqPc[r] \in StreamPcs \cup {"cite_send1", "persist1", "resp_send"}

\* C2: every chat request that reaches response generation gets exactly one
\* assistant turn appended, in streaming and in single-shot mode, also when
\* the client disconnects mid-stream, and the persisted text is the text
\* accumulated so far.
C2_AssistantTurnOnce ==
    \A r \in Reqs :
        ReqFinished(r) => assistantTurns[r] = 1 /\ persistedLen[r] = reqAcc[r]

\* C3: no task ever sends on a client's outbound channel after it was closed.
C3_NoSendOnClosed == panic # "send on closed channel"

\* this step enqueues an event of the given kind for request r
Enqueues(r, kind) ==
    \E c \in Conns : sendQ'[c] = Append(sendQ[c], Msg(kind, r))

\* the complete event of streaming request r has been enqueued
CompleteEnqueued(r) == reqPc[r] \in {"cite_send", "persist"}

\* C19: the events of a streaming request are one start event, one chunk
\* event per non-empty model chunk, then one terminal complete event: the
\* complete event is the only event of the request marked done, and no other
\* event of the request is enqueued after it.
C19_CompleteIsTerminal ==
    [][\A r \in Reqs :
          /\ Enqueues(r, "chunk") => ~reqLast[r]
          /\ CompleteEnqueued(r) =>
                \A kind \in {"start", "chunk", "error", "complete", "citation"} :
                    ~Enqueues(r, kind)]_vars

\* the loop of streamResponse has returned for request r
StreamLoopOver(r) == reqPc[r] \in {"complete_send", "cite_send", "persist", "done"}

\* C20: the model is called once per chat request, and whenever that call
\* fails the client is sent exactly one error event for the request, under
\* every scheduling of the stream's producer and consumer: once the consumer
\* of a connected client has left its loop, no error is left on the error
\* stream that was not relayed.
C20_ErrorEventOnFailure ==
    \A r \in Reqs :
        StreamLoopOver(r) /\ ~ctxDone[reqConn[r]] => ~errBuf[r]

\* C4: a client's outbound channel is closed at most once over the client's
\* lifetime (every close is made by Hub.Run), whether or not client ids are
\* pairwise distinct.
C4_ClosedAtMostOnce == \A c \in Conns : closeCount[c] <= 1

\* C5: a producer that has one more message for a client whose queue is full
\* does not block (the client is disconnected instead): a producer standing
\* at its send statement can always take it.
C5_ProducerNeverBlocks ==
    /\ \A c \in Conns : Alive /\ connPc[c] = "pong" => ENABLED PongSend(c)
    /\ \A r \in Reqs : Alive /\ reqPc[r] \in SendPcs => ENABLED RequestSend(r)

\* what one broadcast does to every client
BroadcastPost ==
    /\ hubPc' = "run"
    /\ panic' = "none"
    /\ \A c \in Conns :
          IF c \in Registered
          THEN IF Len(sendQ[c]) < SendCap
               THEN /\ sendQ'[c] = Append(sendQ[c], Msg("broadcast", 0))
                    /\ registry'[connId[c]] = c
                    /\ ~sendClosed'[c]
               ELSE /\ sendQ'[c] = sendQ[c]
                    /\ c \notin Registered'
                    /\ sendClosed'[c]
                    /\ closeCount'[c] = closeCount[c] + 1
          ELSE /\ sendQ'[c] = sendQ[c]
               /\ sendClosed'[c] = sendClosed[c]

\* C6: a broadcast never blocks the control loop: the loop can always take
\* it, every registered client with room gets the message enqueued exactly
\* once, every registered client with a full queue is removed from the
\* registry with its channel closed, and the loop is back in its select.
C6_BroadcastBestEffort ==
    /\ [](Alive /\ hubPc = "run" => ENABLED HubBroadcast)
    /\ [][HubBroadcast => BroadcastPost]_vars

\* a broadcast has reached one client and dropped another: the dropped
\* client's channel is closed while its reader still runs
C6_Witness ==
    /\ Alive
    /\ hubPc = "run"
    /\ \E c1, c2 \in Conns :
          /\ c1 # c2
          /\ sendQ[c1] # <<>>
          /\ sendQ[c1][Len(sendQ[c1])].kind = "broadcast"
          /\ registry[connId[c1]] = c1
          /\ sendClosed[c2]
          /\ connPc[c2] \in {"read", "pong"}
          /\ connId[c2] # connId[c1]
          /\ registry[connId[c2]] = 0

\* C11: GetContextMessages returns its messages in chronological order: the
\* result is a subsequence of the conversation's messages in the same
\* relative order (message ids grow along the list), and a leading system
\* message, when present, comes first.
C11_ContextChronological ==
    ctxStatus = "ok" =>
        /\ \A i, j \in 1..Len(ctxOut) : i < j => ctxOut[i].id < ctxOut[j].id
        /\ \A i \in 1..Len(ctxOut) : \E k \in 1..Len(convMessages) : convMessages[k] = ctxOut[i]
        /\ HasLeadingSystem(convMessages) => ctxOut # <<>> /\ ctxOut[1] = convMessages[1]

(***************************************************************************)
(* Claims about the RAG retriever                                          *)
(***************************************************************************)
\* C12: the context buildContext returns never exceeds the budget: its
\* TotalTokens is the sum of the token estimates of the included documents (a
\* truncated one at its truncated length) and is at most MaxTokens.
C12_PackingWithinBudget ==
    ragPc = "built" =>
        /\ ragCtx.TotalTokens = SumTokens(ragCtx.Documents)
        /\ \A i \in 1..Len(ragCtx.Documents) :
              ragCtx.Documents[i].tokens = ragEstimateTokens(ragCtx.Documents[i].len)
        /\ ragCtx.TotalTokens <= ragMaxTokens

\* C13: the truncated diagnostic is true whenever a ranked candidate was left
\* out of the context or included with truncated content, and false only
\* when every candidate was included whole.
C13_TruncatedFlag ==
    ragPc = "built" =>
        (ragCtx.truncated <=>
            \/ Len(ragCtx.Documents) < Len(ragResults)
            \/ \E i \in 1..Len(ragCtx.Documents) : ragCtx.Documents[i].cut)

(***************************************************************************)
(* Claims about the document processor                                     *)
(***************************************************************************)
\* ceil(a / b) for b > 0
CeilDiv(a, b) == (a + b - 1) \div b

\* C14 as stated: a text of L words yields ceil((L - o) / (c - o)) chunks
\* when L > c and exactly one chunk when L <= c or the text is empty.
C14_ChunkCountAsStated ==
    chunkPc = "chunked" =>
        Len(textChunks) = IF textWords > chunkSize
                      THEN CeilDiv(textWords - chunkOverlap, chunkSize - chunkOverlap)
                      ELSE 1

\* C14: for 0 <= o < c chunking terminates; a text of at most c characters,
\* the empty text included, yields exactly one chunk, and a longer text of L
\* words yields ceil(L / (c - o)) chunks (none when it has no word).
C14_ChunkCount ==
    chunkPc = "chunked" =>
        Len(textChunks) = IF textChars <= chunkSize
                      THEN 1
                      ELSE CeilDiv(textWords, chunkSize - chunkOverlap)

\* a text of exactly c words, longer than c characters, was split with a
\* positive overlap into two chunks
C14_Witness ==
    /\ chunkPc = "chunked"
    /\ textWords = chunkSize
    /\ chunkOverlap > 0
    /\ Len(textChunks) = 2

\* C15: chunk i (counting from 0) is exactly the words
\* [i(c-o), min(i(c-o)+c, L)) in their original order, so every word belongs
\* to a chunk and two consecutive full chunks share exactly o words; 1000
\* words with c = 500 and o = 50 give [0,500), [450,950), [900,1000).
C15_ChunkRanges ==
    /\ chunkPc = "chunked" =>
          LET step == chunkSize - chunkOverlap
              Upper(i) == IF i * step + chunkSize < textWords
                          THEN i * step + chunkSize ELSE textWords
          IN  /\ \A k \in 1..Len(textChunks) :
                    /\ textChunks[k].from = (k - 1) * step
                    /\ textChunks[k].to = Upper(k - 1)
              /\ \A w \in 0..(textWords - 1) :
                    \E k \in 1..Len(textChunks) : textChunks[k].from <= w /\ w < textChunks[k].to
              /\ \A k \in 1..(Len(textChunks) - 1) :
                    textChunks[k + 1].to - textChunks[k + 1].from = chunkSize =>
                        textChunks[k].to - textChunks[k + 1].from = chunkOverlap
    /\ chunkText(MinChars(1000), 1000, 500, 50)
          = <<[from |-> 0, to |-> 500], [from |-> 450, to |-> 950], [from |-> 900, to |-> 1000]>>

\* a text was split into at least three chunks with a positive overlap, the
\* first two of them full
C15_Witness ==
    /\ chunkPc = "chunked"
    /\ chunkOverlap > 0
    /\ Len(textChunks) >= 3
    /\ textChunks[2].to - textChunks[2].from = chunkSize

FAtLeast(a, b) == ~a.nan /\ ~b.nan /\ a.num >= b.num

\* the score processResults gives document d of the search result
ScoreOf(d) == calculateRelevance(d, rankTerms)

\* C17: processResults keeps exactly the candidates whose relevance score is
\* at least MinScore and returns them in non-increasing score order; scores
\* [0.9, 0.6, 0.4, 0.3] with MinScore 0.5 give exactly [0.9, 0.6].
C17_KeepsAtLeastMinScoreSorted ==
    /\ rankPc = "ranked" =>
          /\ {rankResults[i].id : i \in 1..Len(rankResults)} =
                 {rankDocuments[i].id : i \in {j \in 1..Len(rankDocuments) :
                      FAtLeast(ScoreOf(rankDocuments[j]), Num(rankMinScore * rankTerms))}}
          /\ \A i, j \in 1..Len(rankResults) : i # j => rankResults[i].id # rankResults[j].id
          /\ \A i \in 1..Len(rankResults) :
                \E j \in 1..Len(rankDocuments) :
                    /\ rankDocuments[j].id = rankResults[i].id
                    /\ rankResults[i].Score = ScoreOf(rankDocuments[j])
          /\ \A i \in 1..(Len(rankResults) - 1) :
                FAtLeast(rankResults[i].Score, rankResults[i + 1].Score)
    /\ filterAndSort(<<[id |-> 1, Score |-> Num(9)], [id |-> 2, Score |-> Num(6)],
                       [id |-> 3, Score |-> Num(4)], [id |-> 4, Score |-> Num(3)]>>, Num(5))
           = <<[id |-> 1, Score |-> Num(9)], [id |-> 2, Score |-> Num(6)]>>

(***************************************************************************)
(* Claims about citation extraction                                        *)
(***************************************************************************)
\* the piece that spells the decimal digit d
DigitPiece(d) == <<48 + d>>

\* the pieces of the response from position k on spell "[Document i]"
ReferenceAt(k, i) ==
    LET digits == Decimal(i)
    IN  /\ k + Len(digits) + 1 <= Len(citeResponse)
        /\ citeResponse[k] = RefOpen
        /\ \A d \in 1..Len(digits) : citeResponse[k + d] = <<digits[d]>>
        /\ citeResponse[k + Len(digits) + 1] = <<93>>

\* the documents of the context the response refers to
Referenced ==
    {i \in 1..Len(citeDocuments) : \E k \in 1..Len(citeResponse) : ReferenceAt(k, i)}

\* C18: citation extraction returns exactly one Citation for each retrieved
\* document whose reference "[Document i]" occurs at least once in the text,
\* however often, and none for a document that is not referenced; the
\* citations carry the ids of exactly the referenced documents.
C18_OneCitationPerReferencedDocument ==
    citePc = "extracted" =>
        /\ Len(citeCitations) = Cardinality(Referenced)
        /\ {citeCitations[c].DocumentID : c \in 1..Len(citeCitations)} =
               {citeDocuments[i].ID : i \in Referenced}

\* a document is referenced twice, another once, a third not at all
C18_Witness ==
    /\ citePc = "extracted"
    /\ Len(citeCitations) >= 1
    /\ Len(citeCitations) < Len(citeDocuments)
    /\ \E i \in Referenced :
          \E k1, k2 \in 1..Len(citeResponse) : k1 # k2 /\ ReferenceAt(k1, i) /\ ReferenceAt(k2, i)

(***************************************************************************)
(* Claims about the ingestion pipeline                                     *)
(***************************************************************************)
\* C7: when IngestFile returns without error, ProcessedMessages +
\* SkippedMessages + FailedMessages equals TotalMessages, also for a file some
\* of whose records the parser rejects.
C7_CountersSumToTotal ==
    ingPc = "returned" /\ ~ingErr =>
        stats.processed + stats.skipped + stats.failed = stats.total

\* the messages of a batch that are skipped: empty content and no
\* attachments, with skipEmptyContent set
SkippedOf(batch) ==
    {i \in 1..Len(batch) : skipEmptyContent /\ batch[i].empty /\ ~batch[i].files}

C9_StatsOrderIndependent ==
    ingPc = "returned" =>
        LET skipped == IF skipEmptyContent THEN tally.skippable ELSE 0
        IN  /\ stats.skipped = skipped
            /\ stats.failed = tally.failed
            /\ stats.processed = tally.handed - skipped - tally.failed
            /\ stats.docs = tally.docs
            /\ stats.stored = tally.stored
            /\ stats.failedDocs = tally.failedDocs
            /\ stats.errors.message = tally.failed
            /\ stats.errors.document = tally.failedDocs

\* IngestFile has returned after two workers each processed a batch, one
\* message processed and one failed
C9_Witness ==
    /\ ingPc = "returned"
    /\ workerCount >= 2
    /\ \A w \in 1..2 : workers[w].worked
    /\ stats.processed >= 1
    /\ stats.failed >= 1
    /\ stats.errors.message >= 1

(***************************************************************************)
(* Claims about a turn before response generation                          *)
(***************************************************************************)
\* C21: when document retrieval fails, the request is served as a non-RAG
\* turn: the prompt is built without retrieval context, the model is still
\* invoked, no error event is sent for the retrieval failure (the request
\* is past retrieval with its one model call made), and the user turn added
\* before retrieval stays in the conversation.
C21_RetrievalFailureDowngrades ==
    \A r \in Reqs :
        reqRag[r] = "failed" =>
            /\ reqPrompt[r] = "plain"
            /\ llmCalls[r] = 1
            /\ reqPc[r] \in StreamPcs \cup SinglePcs \cup {"done", "failed"}
            /\ reqPc[r] \in {"chat_err_send", "failed"} => ~streamingEnabled
            /\ reqUser[r] \in {"added", "orphaned"}

\* a turn whose retrieval failed was answered and persisted
C21_Witness ==
    \E r \in Reqs :
        /\ reqRag[r] = "failed"
        /\ reqPc[r] = "done"
        /\ assistantTurns[r] = 1
        /\ reqAcc[r] > 0

\* C22: if the conversation no longer exists when the user turn is added
\* (a cleanup sweep removed it after it was resolved), only that request
\* fails: one error event is sent, no retrieval and no model call is made,
\* and no conversation is modified.
C22_MissingConversationFailsRequest ==
    \A r \in Reqs :
        reqUser[r] \in {"missing", "orphaned"} =>
            /\ reqPc[r] \in {"add_err_send", "failed"}
            /\ reqRag[r] = "none"
            /\ llmCalls[r] = 0
            /\ reqUser[r] = "missing"
            /\ assistantTurns[r] = 0

(***************************************************************************)
(* Claims about the conversation manager under concurrent callers          *)
(***************************************************************************)
\* C23: concurrent AddMessage calls on one conversation are serialized by
\* the conversation's lock: whenever no AddMessage holds the lock, and
\* whenever a reader holds the read lock, the history and the token total
\* are the ones that appending and trimming for each call, one at a time in
\* lock-acquisition order, produce.
C23_AddMessageSerialized ==
    \A o \in Objs :
        mgrMu[o].w = 0 \/ mgrMu[o].r # {} => mgrHeap[o] = mgrSerial[o]

\* two AddMessage calls ran on the conversation at the same time, the
\* second waiting for the lock, budget eviction took place, and a reader
\* holds the read lock
C23_Witness ==
    /\ mgrAdds >= MaxWriters
    /\ \E t \in Writers : taskPc[t] = "lock"
    /\ mgrMu["conv"].r # {}
    /\ Len(mgrHeap["conv"].msgs) < mgrAdds - 1
    /\ mgrHeap["conv"].msgs # <<>>

\* C26: the conversation ExportConversation returned is the live
\* conversation of one single moment, and later AddMessage calls on the
\* live conversation leave it unchanged.
C26_ExportIndependent ==
    taskPc[ExportTask] = "done" => mgrHeap["export"] = mgrMoment

\* C24: no task reads or iterates a registry (the hub's client table, the
\* conversation table) while another task inserts into or deletes from it.
C24_NoAccessDuringMutation ==
    \A t, u \in RegTasks :
        t # u /\ regInside[t].access = "write" => regInside[u].reg # regInside[t].reg

(***************************************************************************)
(* Claims about the life of a connection                                   *)
(***************************************************************************)
\* C25: every connection eventually reaches Closed: once its reader task
\* has ended and waits to hand the client to the unregister channel, under
\* fair scheduling the request is accepted, the client is out of the
\* registry, its outbound channel is closed and its reader and writer have
\* both terminated.
C25_EveryConnectionCloses ==
    \A c \in Conns :
        connPc[c] = "unregister" ~>
            /\ connPc[c] = "closed"
            /\ writerPc[c] = "done"
            /\ sendClosed[c]
            /\ c \notin Registered

(***************************************************************************)
(* Claims about directory ingestion                                        *)
(***************************************************************************)
\* the sum of one counter over the per-file runs
RECURSIVE SumRuns(_, _)
SumRuns(runs, field) ==
    IF runs = <<>> THEN 0 ELSE Head(runs).stats[field] + SumRuns(Tail(runs), field)

\* the number of per-file runs that returned an error
RECURSIVE FailedRuns(_)
FailedRuns(runs) ==
    IF runs = <<>> THEN 0
    ELSE (IF Head(runs).err THEN 1 ELSE 0) + FailedRuns(Tail(runs))

\* the sum of the error entries of one kind over the per-file runs
RECURSIVE SumErrors(_, _)
SumErrors(runs, kind) ==
    IF runs = <<>> THEN 0 ELSE Head(runs).stats.errors[kind] + SumErrors(Tail(runs), kind)

\* C27: after IngestDirectory returns, each aggregate counter of the
\* returned stats equals the sum of that counter over the per-file runs,
\* so processed + skipped + failed = total holds for the directory run
\* whenever it holds for each file.
C27_DirectoryCountersAreSums ==
    dirPc = "returned" =>
        /\ \A field \in {"total", "processed", "skipped", "failed", "docs", "stored",
                         "failedDocs"} :
              dirStats[field] = SumRuns(dirRuns, field)
        /\ (\A i \in 1..Len(dirRuns) :
               LET st == dirRuns[i].stats
               IN  st.processed + st.skipped + st.failed = st.total)
           => dirStats.processed + dirStats.skipped + dirStats.failed = dirStats.total

\* C28: the error list IngestDirectory returns holds one entry for every
\* message that failed, every document whose store failed and every file
\* that failed as a whole, across all files, and every file is ingested.
C28_DirectoryErrorsComplete ==
    dirPc = "returned" =>
        /\ dirLeft = 0
        /\ dirStats.errors.file = FailedRuns(dirRuns)
        /\ dirStats.errors.message = SumErrors(dirRuns, "message")
        /\ dirStats.errors.document = SumErrors(dirRuns, "document")

(***************************************************************************)
(* Claims about the end of an ingestion run                                *)
(***************************************************************************)
\* C29: IngestFile always terminates, for any worker count and any
\* interleaving, with every worker exited, the message channel closed and
\* drained, and every message handed to a worker counted.
C29_IngestFileTerminates ==
    <>(/\ ingPc = "returned"
       /\ \A w \in Workers : workers[w].pc \in {"done", "absent"}
       /\ chanClosed
       /\ messageChan = <<>>
       /\ stats.processed + stats.skipped + stats.failed = tally.handed)

(***************************************************************************)
(* Claims about the CSV parser                                             *)
(***************************************************************************)
\* what ParseWithCallbacks reports for a file when it runs alone: the
\* records, those that parse and validate, those that do not
AloneCounts(file) ==
    [total |-> Len(file),
     processed |-> Cardinality({i \in 1..Len(file) : file[i]}),
     errors |-> Cardinality({i \in 1..Len(file) : ~file[i]})]

\* C30: ParseWithCallbacks calls that run concurrently on one parser each
\* deliver the same batches and each report the same total, processed and
\* error counts as the same call run alone.
C30_ParserConcurrentSafe ==
    \A c \in Calls :
        parCalls[c].pc = "done" =>
            /\ parCalls[c].report = AloneCounts(parCalls[c].file)
            /\ \A i \in 1..Len(parCalls[c].file) :
                  parCalls[c].file[i] <=>
                      \E j \in 1..Len(parCalls[c].batches) : parCalls[c].batches[j] = i

(***************************************************************************)
(* Claims about eviction in the conversation manager                       *)
(***************************************************************************)
\* C31: after any sequence of AddMessage calls the conversation keeps at
\* most MaxMessages messages, a leading system message included.
C31_MessageCountWithinLimit ==
    convAdds > 0 => Len(convMessages) <= cfgMaxMessages

\* more messages were added than the limit allows, none of them large
\* enough for the token budget to evict, and the conversation is at the
\* limit with its system message first and the newest message last
C31_Witness ==
    /\ convAdds = MaxAdds
    /\ cfgMaxMessages = 2
    /\ convMaxTokens = MaxBudget
    /\ HasLeadingSystem(convMessages)
    /\ Len(convMessages) = 2
    /\ convMessages[2].id = MaxAdds
    /\ convTotalTokens = 0

\* C34: after every AddMessage the conversation's running token total is the
\* sum of the token estimates of the messages that remain in it, whether the
\* token budget, the message count, both or neither trimmed during the call.
C34_TotalIsSumOfSurvivors ==
    convAdds > 0 => convTotalTokens = SumTokens(convMessages)

\* the token budget evicted (fewer messages remain than were added although
\* the message limit was never exceeded) and the survivors carry tokens
C34_Witness ==
    /\ convAdds = MaxAdds
    /\ cfgMaxMessages = MaxMsgCfg
    /\ ~HasLeadingSystem(convMessages)
    /\ Len(convMessages) = 2
    /\ convMessages[1].tokens > 0
    /\ convMessages[2].tokens > 0

\* the messages after the first are the k most recently added ones, oldest
\* first: message ids are the AddMessage call numbers, so they end at the
\* number of calls made and go up by one
NewestInOrder(msgs, adds) ==
    \A i \in 2..Len(msgs) : msgs[i].id = adds - (Len(msgs) - i)

\* the conversation still starts with the preamble CreateConversation put in
StartsWithPreamble(msgs) ==
    HasLeadingSystem(msgs) /\ msgs[1].id = 0

\* C35: on a conversation created with a system preamble, every AddMessage
\* leaves that preamble first and, after it, exactly the k most recently
\* added messages for some k, in the order in which they were added:
\* eviction only removes from the oldest non-system end.
C35_EvictionFromOldestEnd ==
    [][StartsWithPreamble(convMessages)
         => /\ StartsWithPreamble(convMessages')
            /\ convMessages'[1] = convMessages[1]
            /\ NewestInOrder(convMessages', convAdds')]_vars

\* after more additions than fit, the preamble and the two newest remain
C35_Witness ==
    /\ StartsWithPreamble(convMessages)
    /\ convAdds = MaxAdds
    /\ Len(convMessages) = 3
    /\ convMessages[2].id = MaxAdds - 1
    /\ convMessages[3].id = MaxAdds

(***************************************************************************)
(* Claims about one ParseWithCallbacks call                                *)
(***************************************************************************)
\* the records of the batches delivered so far, in delivery order
RECURSIVE Delivered(_)
Delivered(batches) ==
    IF batches = <<>> THEN <<>>
    ELSE Head(batches).records \o Delivered(Tail(batches))

\* the records of the file that are accepted, in file order
RECURSIVE AcceptedFrom(_, _, _)
AcceptedFrom(file, i, config) ==
    IF i > Len(file) THEN <<>>
    ELSE (IF CsvAccepted(file[i], config) THEN <<i>> ELSE <<>>)
         \o AcceptedFrom(file, i + 1, config)

RejectedBefore(n) ==
    {i \in 1..n : ~CsvAccepted(csvFile[i], csvConfig)}

\* C33: with SkipErrors set, ParseWithCallbacks never aborts on a record that
\* cannot be read, parsed or validated: the record is in no batch and counts
\* as exactly one error, every progress report and the final one satisfy
\* total = processed + errors, and the processed count of the reports never
\* decreases.
C33_SkipErrorsAccounting ==
    csvConfig.skipErrors =>
        /\ csvPc # "failed_record"
        /\ \A j \in 1..Len(csvBatches) :
              \A k \in 1..Len(csvBatches[j].records) :
                  CsvAccepted(csvFile[csvBatches[j].records[k]], csvConfig)
        /\ csvPc \in {"read", "done"} =>
              /\ csvParser.errors = Cardinality(RejectedBefore(csvLoop.next - 1))
              /\ csvParser.total = csvLoop.next - 1
        /\ \A j \in 1..Len(csvReports) :
              /\ csvReports[j].total = csvReports[j].processed + csvReports[j].errors
              /\ j > 1 => csvReports[j].processed >= csvReports[j - 1].processed
        /\ csvPc = "done" =>
              /\ csvParser.total = Len(csvFile)
              /\ csvReports[Len(csvReports)] = csvParser

\* a call that skipped two records, one of them unreadable and one of them
\* failing validation, made three reports and returned nil
C33_Witness ==
    /\ csvPc = "done"
    /\ csvConfig.skipErrors
    /\ csvConfig.validateRecords
    /\ \E i \in 1..Len(csvFile) : csvFile[i] = "unreadable"
    /\ \E i \in 1..Len(csvFile) : csvFile[i] = "invalid"
    /\ csvParser.errors = 2
    /\ Len(csvReports) = 3
    /\ csvReports[1].processed < csvReports[2].processed

(***************************************************************************)
(* Claims about document counters of an ingestion run                      *)
(***************************************************************************)
\* C36: in every reachable state of an ingestion run TotalDocuments =
\* StoredDocuments + FailedDocuments; a failed Store adds one error and one
\* failed document and the loop goes on: Store is called for every document
\* ProcessMessage returned, so when the run returns every document is either
\* stored or failed, with one error per failed document.
C36_DocumentCounters ==
    /\ stats.docs = stats.stored + stats.failedDocs
    /\ \A w \in Workers :
          workers[w].pc = "lock" /\ workers[w].op = "docs" =>
              workers[w].doc = workers[w].docs + 1
    /\ ingPc = "returned" =>
          /\ tally.docs = tally.stored + tally.failedDocs
          /\ stats.docs = tally.docs
          /\ stats.stored = tally.stored
          /\ stats.failedDocs = tally.failedDocs
          /\ stats.errors.document = tally.failedDocs

\* a run in which a Store failed and documents were stored after it: two
\* messages of two documents each, one Store failure, three documents stored
C36_Witness ==
    /\ ingPc = "returned"
    /\ ~ingErr
    /\ stats.processed = 2
    /\ stats.docs = 4
    /\ stats.failedDocs = 1
    /\ stats.stored = 3
    /\ stats.errors.document = 1

(***************************************************************************)
(* Claims about RetrieveContext                                            *)
(***************************************************************************)
\* the position of a result in the ranked list, 0 when it is not in it
RankOf(result) ==
    IF \E i \in 1..Len(retResults) : retResults[i] = result
    THEN CHOOSE i \in 1..Len(retResults) : retResults[i] = result
    ELSE 0

\* the diversity pass ran on a ranked list longer than MaxDocuments
DiversityApplied ==
    /\ retPc = "returned"
    /\ retConfig.diversity > 0
    /\ Len(retResults) > retConfig.maxDocuments

C39_ContextWithinMaxDocuments ==
    retPc = "returned" => Len(retContext.Documents) <= retConfig.maxDocuments

(***************************************************************************)
(* Claims about ProcessMessage                                             *)
(***************************************************************************)
\* C38: ProcessMessage on a message with empty content and at least one
\* file attachment returns exactly one document and no error, whenever the
\* embedding gateway answers for every text but the empty one.
C38_EmptyContentWithFile ==
    pmPc = "returned" /\ pmMsg.chars = 0 /\ pmMsg.files =>
        pmResult = "documents" /\ pmDocs = 1

(***************************************************************************)
(* Claims about the registry of the hub                                    *)
(***************************************************************************)
\* C40: a registered connection stays in the registry with its outbound
\* channel open until it is itself unregistered, dropped by a broadcast or
\* closed by shutdown: no registration or unregistration of another
\* connection, one presenting the same client id included, removes it from
\* the registry or closes its channel.
C40_OthersLeaveConnectionAlone ==
    [][\A c \in Conns, d \in Conns :
          /\ c # d
          /\ connId[c] \in Ids
          /\ registry[connId[c]] = c
          /\ ~sendClosed[c]
          /\ HubRegister(d) \/ HubUnregister(d)
          => /\ registry'[connId'[c]] = c
             /\ ~sendClosed'[c]]_vars

====
